---- MODULE Spec2Model ----
(***************************************************************************)
(* Model of the teleprobe server (teleprobe/src/server.rs) and of the      *)
(* thread-local log capture it relies on (teleprobe/src/logutil.rs).       *)
(*                                                                         *)
(* A run request passes the warp filter chain (path, POST, check_auth,     *)
(* query, body), then handle_run: target lookup, create-or-get of the      *)
(* target's async mutex, lock().await, timeout computation, and the        *)
(* engine on a spawn_blocking worker under with_capture.  The engine       *)
(* itself (probe, flash, RTT) is abstracted here to what the server sees   *)
(* of it: the log records it emits and whether it returns Ok, returns Err  *)
(* or panics.                                                              *)
(***************************************************************************)
EXTENDS Integers, Sequences, FiniteSets, TLC

\* ---------------------------------------------------------------- bounds
NumReqs == 2        \* run requests the model lets arrive
MaxLogs == 2        \* log records emitted by the engine, over all runs
MaxTimeout == 4     \* largest timeout value drawn in SpecTimeout

\* ------------------------------------------------------ program constants
default_default_timeout == 10
default_max_timeout == 60

\* Option<T>: None is the empty sequence, Some(x) the one-element sequence.
None == << >>
Some(x) == << x >>
Unwrap(o) == o[1]
Reqs == 1..NumReqs
\* The blocking pool starts a thread whenever a job finds none idle (its cap
\* is far above the number of requests modelled), so one thread per request
\* is all the pool ever needs.
Threads == 1..NumReqs
NumHandlers == 3    \* requests of any route the context model lets arrive
Handlers == 1..NumHandlers

\* ------------------------------------------------------------ configuration
\* config.yaml as loaded by serve(): two targets, two token auth methods.
ConfigTargets == {"nrf52", "rp2040"}
ConfigAuths == << [kind |-> "Token", token |-> "tokA"],
                  [kind |-> "Token", token |-> "tokB"] >>

\* Target names a client may put in the path.
Names == ConfigTargets \cup {"unknown"}

\* Authorization header values a client may send.  "Missing" is a request
\* without the header; the others are the header's text, split at the
\* "Bearer " prefix that check_auth strips.
Headers == { [present |-> FALSE, prefix |-> "", rest |-> ""],
             [present |-> TRUE, prefix |-> "Basic ", rest |-> "tokA"],
             [present |-> TRUE, prefix |-> "Bearer ", rest |-> "wrong"],
             [present |-> TRUE, prefix |-> "Bearer ", rest |-> "tokB"] }

\* ------------------------------------------------------------------ logging
\* log::Level, most severe first (Error = 1 ... Trace = 5).
LevelNum(l) ==
  CASE l = "Error" -> 1 [] l = "Warn" -> 2 [] l = "Info" -> 3
    [] l = "Debug" -> 4 [] l = "Trace" -> 5

\* Display for log::Level, used by LogEntry::from_record.
LevelToString(l) ==
  CASE l = "Error" -> "ERROR" [] l = "Warn" -> "WARN" [] l = "Info" -> "INFO"
    [] l = "Debug" -> "DEBUG" [] l = "Trace" -> "TRACE"

\* The capture filter built by logutil::init when RUST_LOG_CAPTURE is unset:
\* Warn globally, Info for "teleprobe", Trace for "device".  A record's target
\* is a module path, given here as its sequence of segments; the most
\* specific directive whose name is a prefix of the target decides.
CaptureMaxLevel(target) ==
  IF Len(target) > 0 /\ target[1] = "device" THEN "Trace"
  ELSE IF Len(target) > 0 /\ target[1] = "teleprobe" THEN "Info"
  ELSE "Warn"

CaptureFilterMatches(rec) ==
  LevelNum(rec.level) <= LevelNum(CaptureMaxLevel(rec.target))

\* Records the engine may emit while it runs.
EngineRecords ==
  { [target |-> <<"device">>, level |-> "Trace", msg |-> "hello"],
    [target |-> <<"teleprobe", "run">>, level |-> "Info", msg |-> "flashing program..."],
    [target |-> <<"probe_rs", "flashing">>, level |-> "Info", msg |-> "erasing"] }

\* error!("Run failed: {:?}", e) in run_with_log_capture's closure.
RunFailedRecord ==
  [target |-> <<"teleprobe", "server">>, level |-> "Error", msg |-> "Run failed"]

\* log::error!(target: "panic", ...) in the panic hook.
PanicRecord ==
  [target |-> <<"panic">>, level |-> "Error", msg |-> "thread panicked"]

\* LogEntry::from_record: the message and the level's Display form.
FromRecord(rec) == [message |-> rec.msg, level |-> LevelToString(rec.level)]

\* Mutant of PushEntry: the entry is put at the front of the buffer.
PushEntryFront(entries, e) == << e >> \o entries

\* entries.push(..)
PushEntry(entries, e) == Append(entries, e)

\* Mutant of LoggerLog: a thread with no buffer gets one on its first record.
LoggerLogCreates(cap, rec) ==
  IF CaptureFilterMatches(rec)
    THEN Some(PushEntry(IF cap = None THEN << >> ELSE Unwrap(cap), FromRecord(rec)))
    ELSE cap

\* CaptureLogger::log on a thread whose CAPTURE cell holds `cap`: the new
\* content of the cell.
LoggerLog(cap, rec) ==
  IF CaptureFilterMatches(rec) /\ cap # None
    THEN Some(PushEntry(Unwrap(cap), FromRecord(rec)))
    ELSE cap

\* writeln!(&mut res, "{} - {}", entry.level, entry.message): one line.
FormatLine(e) == <<e.level, " - ", e.message>>

\* The response body of a run: one line per entry, in the entries' order.
FormatEntries(entries) == [i \in 1..Len(entries) |-> FormatLine(entries[i])]

\* --------------------------------------------------------------------- auth
\* check_auth_token for Auth::Token.
CheckAuthToken(token, auth) == token = auth.token

\* The check_auth filter: the header must be present (warp::header), start
\* with "Bearer ", and carry a token one of the configured methods accepts.
\* "ok", or the rejection.
CheckAuth(hdr) ==
  IF ~hdr.present THEN "MissingHeader"
  ELSE IF hdr.prefix # "Bearer " THEN "BadAuthHeaderFormat"
  ELSE IF \E i \in 1..Len(ConfigAuths) : CheckAuthToken(hdr.rest, ConfigAuths[i])
    THEN "ok"
  ELSE "Unauthorized"

\* serve() installs no recover() handler, so a rejection is answered with
\* warp's default reply: 400 for a missing header, 500 "Unhandled rejection"
\* for the custom rejections BadAuthHeaderFormat and Unauthorized.
RejectionReply(rej) ==
  IF rej = "MissingHeader"
    THEN [status |-> 400, body |-> <<"Missing request header ", "Authorization">>]
    ELSE [status |-> 500, body |-> <<"Unhandled rejection: ", rej>>]

\* ------------------------------------------------------------------ timeout
\* Mutant of UnwrapOr: unwrap_or_default(), which ignores the configured default.
UnwrapOrZero(t, d) == IF t = None THEN 0 ELSE Unwrap(t)

\* Option::unwrap_or
UnwrapOr(t, d) == IF t = None THEN d ELSE Unwrap(t)

\* u64::min
Min(a, b) == IF a <= b THEN a ELSE b

\* Mutant of EffectiveTimeout: the clamp to max_timeout is left out.
EffectiveTimeoutUnclamped(t, dflt, max) == IF t = None THEN dflt ELSE Unwrap(t)

\* args.timeout.unwrap_or(config.default_timeout).min(config.max_timeout)
EffectiveTimeout(t, dflt, max) == Min(UnwrapOr(t, dflt), max)

\* ---------------------------------------------------------------- responses
\* Mutant of StatusOf: every completed run is answered 200.
StatusAlwaysOk(ok) == 200

\* if ok { StatusCode::OK } else { StatusCode::BAD_REQUEST }
StatusOf(ok) == IF ok THEN 200 ELSE 400

\* reject!(StatusCode::NOT_FOUND, "Target not found: {}", name)
NotFoundReply(name) == [status |-> 404, body |-> <<"Target not found: ", name>>]

\* Mutant of FindTarget: the lookup accepts any name.
FindTargetAny(name) == Some([name |-> name])

\* config.targets.iter().find(|t| t.name == name)
FindTarget(name) == IF name \in ConfigTargets THEN Some([name |-> name]) ELSE None

\* Mutant of LockKey: one mutex for all targets.
LockKeyGlobal(target) == "all"

\* The key under which a target's mutex is kept: target.name.
LockKey(target) == target.name

FreshMutex == [holder |-> 0, waiters |-> <<>>]

\* The Err(JoinError) a JoinHandle yields when its job panicked.
JoinError == [join_error |-> TRUE, ok |-> FALSE, entries |-> << >>]

\* -------------------------------------------------------------------- state
VARIABLES
  default_timeout,  \* Config::default_timeout
  max_timeout,      \* Config::max_timeout
  req,              \* per request: what the client sent (None before arrival)
  pc,               \* per request: where its handler future stands
  target_locks,     \* Context::target_locks: key -> async mutex
  timeout,          \* per request: the timeout handed to the engine
  job,              \* per request: state of its spawn_blocking job
  thread_job,       \* per pool thread: the request whose job it runs (0: idle)
  CAPTURE,          \* per pool thread: the thread-local capture cell
  CATCHING_UNWIND,  \* per pool thread: the thread-local flag the hook reads
  result,           \* per request: what its job returned through the JoinHandle
  emitted,          \* per request: every record logged on its worker (history)
  nlogs,            \* engine records emitted so far, over all runs
  resp,             \* per request: the response sent (None: none)
  aborted           \* the process called abort()

\* The engine (teleprobe/src/run.rs) and the probe connection
\* (teleprobe/src/probe/mod.rs), modelled further down.
VARIABLES
  elf,              \* Runner::new: what the ELF holds (sections, symbols)
  opts,             \* run::Options
  chip,             \* the attached target: memory region of the vector
                    \* table, breakpoint units, whether VTOR reads back
  new_pc,           \* Runner::new: index of the next step of its plan
  ops,              \* Runner::new: operations issued to the session so far
  try_index,        \* setup_logging_channel: the loop variable
  new_result,       \* what Runner::new returned (None: still running)
  rpc,              \* Runner::run: position in the poll loop
  was_halted,       \* Runner::run: the local of that name
  core_halted,      \* the target: core 0 is halted
  up_buffer,        \* the target: bytes in RTT up-channel 0 not yet read
  obs,              \* Runner::run: every is_halted it sampled, in order
  rlog,             \* records the runner logged itself, in order
  dumped,           \* the dump_state call made (None: none)
  run_result,       \* what Runner::run returned (None: still running)
  fired,            \* the deadline check of Runner::run fired
  now,              \* Instant::now(), in milliseconds in the settle loop
  probe_opts,       \* probe::Opts
  end,              \* connect: the local of that name
  cpc,              \* connect: position
  cycle_writes,     \* connect: what its power_reset wrote to disable, and when
  power_res,        \* connect: what its power_reset returned (None: not called)
  attempts,         \* connect: every open_probe call of the loop, in order
  connect_result    \* what connect returned (None: still running)

\* run_firmware_on_device (teleprobe/src/server.rs), modelled further down.
VARIABLES
  dpc,              \* run_firmware_on_device: position
  rf_timeout,       \* run_firmware_on_device: its parameter timeout (None: no call)
  run_calls,        \* run_firmware_on_device: calls of run::run made so far
  tries,            \* run_firmware_on_device: connect calls made so far
  conn_res,         \* run_firmware_on_device: its local res
  run_deadline,     \* Options::deadline handed to run::run (None: not yet)
  device_result     \* what run_firmware_on_device returned (None: running)

\* The USB power cycle of connect (teleprobe/src/probe/mod.rs), per run.
VARIABLES
  pw,               \* per request: where the power_reset of its connect stands
  port_disable      \* per target: the disable file of the hub port of its probe

\* ProbeSpecifier (src/probe/specifier.rs): one string parsed and formatted.
VARIABLES
  sel_in,           \* the selector string, as its characters (None: none)
  sel_parsed,       \* what from_str returned for it (None: not called)
  sel_out           \* what serialize wrote for the parsed value (None: not called)

\* ElfMetadata::from_elf (teleprobe/src/client.rs): one call.
VARIABLES
  meta_elf,         \* the bytes handed to from_elf, as what they hold (None: none)
  meta_result,      \* what from_elf returned (None: not called)
  meta_log          \* the records from_elf logged

\* Runner::poll (teleprobe/src/run.rs): the reads of one run and their decoding.
VARIABLES
  can_recover,      \* defmt_table.encoding().can_recover() (None: no run)
  reads,            \* what each read of up-channel 0 returned, in order
  dec_buf,          \* the stream decoder: received and not yet decoded
  poll_log,         \* the records poll logged
  poll_result       \* the Err that ended the run (None: none so far)

\* The panic hook and CatchUnwind (teleprobe/src/logutil.rs).
VARIABLES
  unwind_stack,     \* per thread: prev of each CatchUnwind::poll in progress,
                    \* innermost last
  panic_log         \* what the panic hook has logged, with the flag it read

\* The logger on the runtime's own threads (teleprobe/src/logutil.rs), where
\* the request handlers run.
VARIABLES
  runtime_capture,  \* the thread-local capture cell of a runtime thread
  runtime_logged    \* every record logged on a runtime thread (history)

\* The handlers' use of the context mutex (teleprobe/src/server.rs), one
\* cx.lock() scope at a time.
VARIABLES
  context_owner,    \* the handler holding the Mutex<Context> (0: free)
  h_route,          \* per handler: the route of its request ("none": no request)
  h_pc,             \* per handler: [at: the scope or await it is at,
                    \*               held: it holds the context guard]
  target_guard      \* the handler holding the target's AsyncMutex guard (0: free)

\* The client's run command (teleprobe/src/client.rs): one invocation.
VARIABLES
  files,            \* the files to run, in order, as what each one holds
  cmd_target,       \* RunCommand::target
  before_cache,     \* the cache load_cache returned, as its set of hashes
  cl_pc,            \* run: position
  idx,              \* run: index of the file the first loop is at
  jobs_by_target,   \* run: target -> the jobs queued for it, as file indices
  skipped_jobs,     \* run: the files skipped, as file indices
  reported,         \* the files logged as SKIPPED
  posts,            \* per file: POST requests sent for it so far
  job_result,       \* per file: what run_job returned for it
  after_cache,      \* run: the cache to be saved, as its set of hashes
  saved_cache,      \* what run wrote to the cache file (None: nothing written)
  client_result     \* what run returned (None: still running)

serverVars == << default_timeout, max_timeout, req, pc, target_locks, timeout, job,
           thread_job, CAPTURE, CATCHING_UNWIND, result, emitted, nlogs, resp,
           aborted >>
newVars == << elf, opts, chip, new_pc, ops, try_index, new_result >>
runVars == << rpc, was_halted, core_halted, up_buffer, obs, rlog, dumped,
              run_result, fired >>
probeVars == << probe_opts, end, cpc, attempts, connect_result, cycle_writes,
                power_res >>
engineVars == << newVars, runVars, now, probeVars >>
deviceVars == << dpc, rf_timeout, tries, conn_res, run_deadline, run_calls,
                 device_result >>
powerVars == << pw, port_disable >>
selectorVars == << sel_in, sel_parsed, sel_out >>
metaVars == << meta_elf, meta_result, meta_log >>
clientVars == << files, cmd_target, before_cache, cl_pc, idx, jobs_by_target,
                 skipped_jobs, reported, posts, job_result, after_cache,
                 saved_cache, client_result >>
pollVars == << can_recover, reads, dec_buf, poll_log, poll_result >>
unwindVars == << unwind_stack, panic_log >>
captureVars == << runtime_capture, runtime_logged >>
contextVars == << context_owner, h_route, h_pc, target_guard >>
moreVars == << pollVars, unwindVars, captureVars, contextVars >>
extVars == << deviceVars, powerVars, selectorVars, metaVars, clientVars, moreVars >>
\* What each of these parts leaves alone of the others.
deviceRest == << powerVars, selectorVars, metaVars, clientVars, moreVars >>
powerRest == << deviceVars, selectorVars, metaVars, clientVars, moreVars >>
selectorRest == << deviceVars, powerVars, metaVars, clientVars, moreVars >>
metaRest == << deviceVars, powerVars, selectorVars, clientVars, moreVars >>
clientRest == << deviceVars, powerVars, selectorVars, metaVars, moreVars >>
pollRest == << deviceVars, powerVars, selectorVars, metaVars, clientVars, unwindVars,
              captureVars, contextVars >>
unwindRest == << deviceVars, powerVars, selectorVars, metaVars, clientVars, pollVars,
                captureVars, contextVars >>
captureRest == << deviceVars, powerVars, selectorVars, metaVars, clientVars, pollVars,
                 unwindVars, contextVars >>
contextRest == << deviceVars, powerVars, selectorVars, metaVars, clientVars, pollVars,
                 unwindVars, captureVars >>
vars == << serverVars, engineVars, extVars >>

\* No Runner is being constructed.
NewIdle ==
  /\ elf = None /\ opts = None /\ chip = None /\ new_pc = 0 /\ ops = << >>
  /\ try_index = 0 /\ new_result = None

\* No Runner is running.
RunIdle ==
  /\ rpc = "idle" /\ was_halted = FALSE /\ core_halted = FALSE /\ up_buffer = 0
  /\ obs = << >> /\ rlog = << >> /\ dumped = None /\ run_result = None
  /\ fired = FALSE

\* No connect is in progress.
ProbeIdle ==
  /\ probe_opts = None /\ end = None /\ cpc = "idle" /\ attempts = << >>
  /\ connect_result = None /\ cycle_writes = << >> /\ power_res = None

\* run_firmware_on_device is not being executed.
DeviceIdle ==
  /\ dpc = "idle" /\ rf_timeout = None /\ tries = 0 /\ conn_res = None
  /\ run_deadline = None /\ run_calls = 0 /\ device_result = None

\* No power cycle has been started: every hub port is enabled.
PowerIdle ==
  /\ pw = [r \in Reqs |-> "none"]
  /\ port_disable = [t \in ConfigTargets |-> "0"]

\* No selector is being parsed.
SelectorIdle == sel_in = None /\ sel_parsed = None /\ sel_out = None

\* from_elf has not been called.
MetaIdle == meta_elf = None /\ meta_result = None /\ meta_log = << >>

\* The client's run command is not being executed.
ClientIdle ==
  /\ files = << >> /\ cmd_target = None /\ before_cache = {} /\ cl_pc = "idle"
  /\ idx = 0 /\ jobs_by_target = << >> /\ skipped_jobs = << >> /\ reported = {}
  /\ posts = << >> /\ job_result = << >> /\ after_cache = {}
  /\ saved_cache = None /\ client_result = None

\* No run is polling.
PollIdle ==
  /\ can_recover = None /\ reads = << >> /\ dec_buf = << >> /\ poll_log = << >>
  /\ poll_result = None

\* No CatchUnwind is polling and nothing has panicked.
UnwindIdle == unwind_stack = [w \in Threads |-> << >>] /\ panic_log = << >>

CaptureIdle == runtime_capture = None /\ runtime_logged = << >>
ContextIdle ==
  /\ context_owner = 0 /\ target_guard = 0
  /\ h_route = [h \in Handlers |-> "none"]
  /\ h_pc = [h \in Handlers |-> [at |-> "idle", held |-> FALSE]]
MoreIdle == PollIdle /\ UnwindIdle /\ CaptureIdle /\ ContextIdle
ExtIdle == DeviceIdle /\ PowerIdle /\ SelectorIdle /\ MetaIdle /\ ClientIdle /\ MoreIdle
PollRestIdle ==
  /\ DeviceIdle /\ PowerIdle /\ SelectorIdle /\ MetaIdle /\ ClientIdle
  /\ UnwindIdle /\ CaptureIdle /\ ContextIdle
UnwindRestIdle ==
  /\ DeviceIdle /\ PowerIdle /\ SelectorIdle /\ MetaIdle /\ ClientIdle
  /\ PollIdle /\ CaptureIdle /\ ContextIdle
DeviceRestIdle == PowerIdle /\ SelectorIdle /\ MetaIdle /\ ClientIdle /\ MoreIdle
PowerRestIdle == DeviceIdle /\ SelectorIdle /\ MetaIdle /\ ClientIdle /\ MoreIdle
SelectorRestIdle == DeviceIdle /\ PowerIdle /\ MetaIdle /\ ClientIdle /\ MoreIdle
MetaRestIdle == DeviceIdle /\ PowerIdle /\ SelectorIdle /\ ClientIdle /\ MoreIdle
ClientRestIdle == DeviceIdle /\ PowerIdle /\ SelectorIdle /\ MetaIdle /\ MoreIdle

EngineIdle == NewIdle /\ RunIdle /\ now = 0 /\ ProbeIdle /\ ExtIdle

\* --------------------------------------------------------- tokio::sync::Mutex
\* lock(): the caller holds the mutex at once when it is free, and otherwise
\* joins the FIFO queue of waiters.
AsyncMutexLock(m, r) ==
  IF m.holder = 0 THEN [m EXCEPT !.holder = r]
  ELSE [m EXCEPT !.waiters = Append(@, r)]

\* Dropping the guard: the mutex passes to the first waiter, if any.
AsyncMutexUnlock(m) ==
  IF m.waiters = <<>> THEN [m EXCEPT !.holder = 0]
  ELSE [holder |-> Head(m.waiters), waiters |-> Tail(m.waiters)]

\* Dropping a lock() future that is still queued.
AsyncMutexCancel(m, r) ==
  [m EXCEPT !.waiters = SelectSeq(@, LAMBDA x : x # r)]

\* Mutant of OrInsert: every request installs a new mutex under its key.
OrInsertAlways(locks, key) ==
  [k \in DOMAIN locks \cup {key} |-> IF k = key THEN FreshMutex ELSE locks[k]]

\* target_locks.entry(key).or_insert_with(|| Arc::new(AsyncMutex::new(())))
OrInsert(locks, key) ==
  IF key \in DOMAIN locks THEN locks
  ELSE [k \in DOMAIN locks \cup {key} |-> IF k = key THEN FreshMutex ELSE locks[k]]

\* The registry key of an accepted request.
KeyOf(r) == LockKey(Unwrap(FindTarget(Unwrap(req[r]).name)))

\* The idle pool thread a new job is given.
IdleThread == CHOOSE w \in Threads :
                /\ thread_job[w] = 0
                /\ \A v \in Threads : thread_job[v] = 0 => w <= v

ThreadOf(r) == CHOOSE w \in Threads : thread_job[w] = r

\* ------------------------------------------------------------------ actions
ServerInit ==
  /\ default_timeout = default_default_timeout
  /\ max_timeout = default_max_timeout
  /\ req = [r \in Reqs |-> None]
  /\ pc = [r \in Reqs |-> "idle"]
  /\ target_locks = << >>
  /\ timeout = [r \in Reqs |-> None]
  /\ job = [r \in Reqs |-> "none"]
  /\ thread_job = [w \in Threads |-> 0]
  /\ CAPTURE = [w \in Threads |-> None]
  /\ CATCHING_UNWIND = [w \in Threads |-> FALSE]
  /\ result = [r \in Reqs |-> None]
  /\ emitted = [r \in Reqs |-> <<>>]
  /\ nlogs = 0
  /\ resp = [r \in Reqs |-> None]
  /\ aborted = FALSE

Init == ServerInit /\ EngineIdle

\* handle_run from the point where it holds the target guard up to its next
\* suspension: the timeout is computed and the engine is handed to
\* spawn_blocking, whose completion the handler then awaits.
SpawnRun(r, t) ==
  /\ timeout' = [timeout EXCEPT ![r] = Some(EffectiveTimeout(t, default_timeout, max_timeout))]
  /\ job' = [job EXCEPT ![r] = "spawned"]
  /\ pc' = [pc EXCEPT ![r] = "join_wait"]

\* A run request arrives: the filter chain of serve() and handle_run up to
\* its first suspension point.
Arrive(r, name, hdr, t) ==
  /\ ~aborted
  /\ pc[r] = "idle"
  /\ \A q \in Reqs : q < r => pc[q] # "idle"
  /\ req' = [req EXCEPT ![r] = Some([name |-> name, hdr |-> hdr, timeout |-> t])]
  /\ LET rej == CheckAuth(hdr)
         target == FindTarget(name)
     IN IF rej # "ok"
          THEN /\ resp' = [resp EXCEPT ![r] = Some(RejectionReply(rej))]
               /\ pc' = [pc EXCEPT ![r] = "done"]
               /\ UNCHANGED << target_locks, timeout, job >>
        ELSE IF target = None
          THEN /\ resp' = [resp EXCEPT ![r] = Some(NotFoundReply(name))]
               /\ pc' = [pc EXCEPT ![r] = "done"]
               /\ UNCHANGED << target_locks, timeout, job >>
        ELSE LET key == LockKey(Unwrap(target))
                 locks == OrInsert(target_locks, key)
                 m == AsyncMutexLock(locks[key], r)
             IN /\ target_locks' = [locks EXCEPT ![key] = m]
                /\ resp' = resp
                /\ IF m.holder = r
                     THEN SpawnRun(r, t)
                     ELSE /\ pc' = [pc EXCEPT ![r] = "lock_wait"]
                          /\ UNCHANGED << timeout, job >>
  /\ UNCHANGED << default_timeout, max_timeout, thread_job, CAPTURE,
                  CATCHING_UNWIND, result, emitted, nlogs, aborted >>
  /\ UNCHANGED << engineVars, extVars >>

\* target_mutex.lock().await completes for a request that had to wait.
LockAcquired(r) ==
  /\ ~aborted
  /\ pc[r] = "lock_wait"
  /\ target_locks[KeyOf(r)].holder = r
  /\ SpawnRun(r, Unwrap(req[r]).timeout)
  /\ UNCHANGED << default_timeout, max_timeout, req, target_locks, thread_job,
                  CAPTURE, CATCHING_UNWIND, result, emitted, nlogs, resp, aborted >>
  /\ UNCHANGED << engineVars, extVars >>

\* The client goes away and the server drops the request's handler future at
\* the suspension point it is at.  Its locals are dropped with it: a queued
\* lock() future leaves the queue, a guard is released.  The JoinHandle is
\* dropped too, which detaches the blocking job but does not stop it.
Disconnect(r) ==
  /\ ~aborted
  /\ pc[r] \in {"lock_wait", "join_wait"}
  /\ LET m == target_locks[KeyOf(r)]
     IN target_locks' = [target_locks EXCEPT ![KeyOf(r)] =
                           IF m.holder = r THEN AsyncMutexUnlock(m)
                           ELSE AsyncMutexCancel(m, r)]
  /\ pc' = [pc EXCEPT ![r] = "dropped"]
  /\ UNCHANGED << default_timeout, max_timeout, req, timeout, job, thread_job,
                  CAPTURE, CATCHING_UNWIND, result, emitted, nlogs, resp, aborted >>
  /\ UNCHANGED << engineVars, extVars >>

\* A pool thread takes the job: with_capture sets the thread's CAPTURE cell to
\* an empty buffer and calls run_firmware_on_device (engine entry).
WorkerStart(r) ==
  /\ ~aborted
  /\ job[r] = "spawned"
  /\ LET w == IdleThread
     IN /\ thread_job' = [thread_job EXCEPT ![w] = r]
        /\ CAPTURE' = [CAPTURE EXCEPT ![w] = Some(<< >>)]
  /\ job' = [job EXCEPT ![r] = "running"]
  /\ UNCHANGED << default_timeout, max_timeout, req, pc, target_locks, timeout,
                  CATCHING_UNWIND, result, emitted, nlogs, resp, aborted >>
  /\ UNCHANGED << engineVars, extVars >>

\* The engine logs a record on its worker thread.
EngineLog(r, rec) ==
  /\ ~aborted
  /\ job[r] = "running"
  /\ nlogs < MaxLogs
  /\ LET w == ThreadOf(r)
     IN CAPTURE' = [CAPTURE EXCEPT ![w] = LoggerLog(@, rec)]
  /\ emitted' = [emitted EXCEPT ![r] = Append(@, rec)]
  /\ nlogs' = nlogs + 1
  /\ UNCHANGED << default_timeout, max_timeout, req, pc, target_locks, timeout,
                  job, thread_job, CATCHING_UNWIND, result, resp, aborted >>
  /\ UNCHANGED << engineVars, extVars >>

\* run_firmware_on_device returns (engine exit): an Err is logged by the
\* closure, with_capture takes the buffer out of the cell, and the pair goes
\* to the JoinHandle.
EngineReturn(r, ok) ==
  /\ ~aborted
  /\ job[r] = "running"
  /\ LET w == ThreadOf(r)
         cap == IF ok THEN CAPTURE[w] ELSE LoggerLog(CAPTURE[w], RunFailedRecord)
     IN /\ result' = [result EXCEPT ![r] = Some([join_error |-> FALSE, ok |-> ok,
                                                 entries |-> Unwrap(cap)])]
        /\ CAPTURE' = [CAPTURE EXCEPT ![w] = None]
        /\ thread_job' = [thread_job EXCEPT ![w] = 0]
  /\ emitted' = [emitted EXCEPT ![r] = IF ok THEN @ ELSE Append(@, RunFailedRecord)]
  /\ job' = [job EXCEPT ![r] = "finished"]
  /\ UNCHANGED << default_timeout, max_timeout, req, pc, target_locks, timeout,
                  CATCHING_UNWIND, nlogs, resp, aborted >>
  /\ UNCHANGED << engineVars, extVars >>

\* The engine panics on its worker thread.  The hook installed by
\* log_panics::init logs the panic and then reads the thread's
\* CATCHING_UNWIND flag: unless it is set the hook calls abort().  Otherwise
\* the panic unwinds out of with_capture (the buffer stays in the cell) and
\* reaches the JoinHandle as a JoinError.
EnginePanic(r) ==
  /\ ~aborted
  /\ job[r] = "running"
  /\ LET w == ThreadOf(r)
     IN /\ CAPTURE' = [CAPTURE EXCEPT ![w] = LoggerLog(@, PanicRecord)]
        /\ IF CATCHING_UNWIND[w]
             THEN /\ aborted' = aborted
                  /\ result' = [result EXCEPT ![r] = Some(JoinError)]
                  /\ thread_job' = [thread_job EXCEPT ![w] = 0]
             ELSE /\ aborted' = TRUE
                  /\ UNCHANGED << result, thread_job >>
  /\ emitted' = [emitted EXCEPT ![r] = Append(@, PanicRecord)]
  /\ job' = [job EXCEPT ![r] = "panicked"]
  /\ UNCHANGED << default_timeout, max_timeout, req, pc, target_locks, timeout,
                  CATCHING_UNWIND, nlogs, resp >>
  /\ UNCHANGED << engineVars, extVars >>

\* spawn_blocking(..).await completes in a handler that is still alive: the
\* JoinHandle's value is unwrapped (a JoinError panics on the scheduler
\* thread, where the hook aborts), the entries are formatted, the response is
\* sent, and the guard is dropped as handle_run returns.
Respond(r) ==
  /\ ~aborted
  /\ pc[r] = "join_wait"
  /\ job[r] \in {"finished", "panicked"}
  /\ IF Unwrap(result[r]).join_error
       THEN /\ aborted' = TRUE
            /\ UNCHANGED << pc, resp, target_locks >>
       ELSE /\ resp' = [resp EXCEPT ![r] =
                          Some([status |-> StatusOf(Unwrap(result[r]).ok),
                                body |-> FormatEntries(Unwrap(result[r]).entries)])]
            /\ target_locks' = [target_locks EXCEPT ![KeyOf(r)] = AsyncMutexUnlock(@)]
            /\ pc' = [pc EXCEPT ![r] = "done"]
            /\ aborted' = aborted
  /\ UNCHANGED << default_timeout, max_timeout, req, timeout, job, thread_job,
                  CAPTURE, CATCHING_UNWIND, result, emitted, nlogs >>
  /\ UNCHANGED << engineVars, extVars >>

\* ----------------------------------------------------------- specifications
\* Header values and ?timeout= values of the requests drawn below.
GoodHeader == [present |-> TRUE, prefix |-> "Bearer ", rest |-> "tokB"]
ClientTimeouts == {None, Some(100)}
TimeoutRange == 0..MaxTimeout

\* Spec: requests with any header and any target name, clients that may
\* disconnect, and an engine that returns Ok, returns Err or panics, logging
\* nothing of its own.
Next ==
  \/ \E r \in Reqs, name \in Names, hdr \in Headers, t \in ClientTimeouts :
       Arrive(r, name, hdr, t)
  \/ \E r \in Reqs : LockAcquired(r)
  \/ \E r \in Reqs : Disconnect(r)
  \/ \E r \in Reqs : WorkerStart(r)
  \/ \E r \in Reqs, ok \in BOOLEAN : EngineReturn(r, ok)
  \/ \E r \in Reqs : EnginePanic(r)
  \/ \E r \in Reqs : Respond(r)

Spec == Init /\ [][Next]_vars

\* SpecLive: the server with its scheduling.  The runtime polls a handler
\* whose lock() or JoinHandle is ready, the blocking pool gives a spawned job
\* a thread, and an engine invocation that does not panic returns, at the
\* latest when its deadline passes.  Clients may arrive and disconnect or not.
Scheduled(r) ==
  \/ LockAcquired(r)
  \/ WorkerStart(r)
  \/ \E ok \in BOOLEAN : EngineReturn(r, ok)
  \/ Respond(r)

SpecLive == Init /\ [][Next]_vars /\ \A r \in Reqs : WF_vars(Scheduled(r))

\* SpecLog: authenticated requests for configured targets from clients that
\* stay connected, and an engine that logs up to MaxLogs records.
NextLog ==
  \/ \E r \in Reqs, name \in ConfigTargets : Arrive(r, name, GoodHeader, None)
  \/ \E r \in Reqs : LockAcquired(r)
  \/ \E r \in Reqs : WorkerStart(r)
  \/ \E r \in Reqs, rec \in EngineRecords : EngineLog(r, rec)
  \/ \E r \in Reqs, ok \in BOOLEAN : EngineReturn(r, ok)
  \/ \E r \in Reqs : EnginePanic(r)
  \/ \E r \in Reqs : Respond(r)

SpecLog == Init /\ [][NextLog]_vars

\* SpecTimeout: any configured default_timeout and max_timeout, and
\* authenticated requests for one target with any ?timeout=.
InitTimeout ==
  /\ default_timeout \in TimeoutRange
  /\ max_timeout \in TimeoutRange
  /\ req = [r \in Reqs |-> None]
  /\ pc = [r \in Reqs |-> "idle"]
  /\ target_locks = << >>
  /\ timeout = [r \in Reqs |-> None]
  /\ job = [r \in Reqs |-> "none"]
  /\ thread_job = [w \in Threads |-> 0]
  /\ CAPTURE = [w \in Threads |-> None]
  /\ CATCHING_UNWIND = [w \in Threads |-> FALSE]
  /\ result = [r \in Reqs |-> None]
  /\ emitted = [r \in Reqs |-> <<>>]
  /\ nlogs = 0
  /\ resp = [r \in Reqs |-> None]
  /\ aborted = FALSE
  /\ EngineIdle

NextTimeout ==
  \/ \E r \in Reqs, t \in {None} \cup {Some(v) : v \in TimeoutRange} :
       Arrive(r, "nrf52", GoodHeader, t)
  \/ \E r \in Reqs : LockAcquired(r)
  \/ \E r \in Reqs : WorkerStart(r)
  \/ \E r \in Reqs : EngineReturn(r, TRUE)
  \/ \E r \in Reqs : Respond(r)

SpecTimeout == InitTimeout /\ [][NextTimeout]_vars

\* ================================================= the engine: Runner::new
\* ------------------------------------------------------ program constants
THUMB_BIT == 1
NUM_RETRIES == 10
OFFSET == 44
FLAG == 2

\* Mutant of ClearThumb: the address is used as the symbol gives it.
ClearThumbKept(addr) == addr

\* addr & !THUMB_BIT
ClearThumb(addr) == addr - ((addr \div THUMB_BIT) % 2) * THUMB_BIT

\* The sections cortex-m-rt loads.
Candidates == {".vector_table", ".text", ".rodata", ".data"}

\* Mutant of Misaligned: no section is refused.
MisalignedNever(start, size) == FALSE

\* size % 4 != 0 || start % 4 != 0
Misaligned(start, size) == size % 4 # 0 \/ start % 4 # 0

\* The loop over elf.sections(): empty sections and sections that are not
\* loaded are skipped, a misaligned one ends the run, the vector table is
\* taken from the words of .vector_table.  vt is the table found so far.
RECURSIVE ScanSections(_, _)
ScanSections(sections, vt) ==
  IF sections = << >> THEN [err |-> "", vector_table |-> vt]
  ELSE LET sect == Head(sections)
       IN IF sect.name \in Candidates /\ sect.size # 0
            THEN IF Misaligned(sect.start, sect.size)
                   THEN [err |-> "section is not 4-byte aligned", vector_table |-> vt]
                   ELSE ScanSections(Tail(sections),
                          IF sect.name = ".vector_table"
                            THEN Some([location |-> sect.start,
                                       initial_sp |-> sect.data[1],
                                       reset |-> sect.data[2],
                                       hard_fault |-> sect.data[4]])
                            ELSE vt)
            ELSE ScanSections(Tail(sections), vt)

\* The loop of get_rtt_main_from over elf.symbols(), from the values found
\* so far.
RECURSIVE ScanSymbols(_, _, _)
ScanSymbols(symbols, rtt, main) ==
  IF symbols = << >> THEN [rtt |-> rtt, main |-> main]
  ELSE LET symbol == Head(symbols)
       IN IF symbol.name = "main"
            THEN ScanSymbols(Tail(symbols), rtt, Some(ClearThumb(symbol.address)))
          ELSE IF symbol.name = "_SEGGER_RTT"
            THEN ScanSymbols(Tail(symbols), Some(symbol.address), main)
          ELSE ScanSymbols(Tail(symbols), rtt, main)

\* Mutant of GetRttMainFrom: a missing _SEGGER_RTT reads as address 0.
GetRttMainFromDefault(symbols) ==
  LET found == ScanSymbols(symbols, None, None)
  IN [found EXCEPT !.rtt = IF @ = None THEN Some(0) ELSE @]

\* get_rtt_main_from, up to the ok_or_else on main that the plan applies.
GetRttMainFrom(symbols) == ScanSymbols(symbols, None, None)

\* The steps of a plan: an operation on the session or the core (which may
\* return Err), a bail!() or a failed ? on a value, or a panic.
Op(name, addr, val) == [kind |-> "op", name |-> name, addr |-> addr, val |-> val]
Bail(msg) == [kind |-> "bail", name |-> msg, addr |-> 0, val |-> 0]
PanicStep(msg) == [kind |-> "panic", name |-> msg, addr |-> 0, val |-> 0]

\* Mutant of RunFromRam: a Generic region is booted like flash.
RunFromRamOnlyRam(region) == region = "Ram"

\* run_from_ram, for a vector table that lies in a region of the memory map.
RunFromRam(region) == region \in {"Ram", "Generic"}

\* Mutant of FlashSteps: the image is never written.
FlashStepsSkipped(do_flash) == << >>

\* if !opts.do_flash { .. } else { reset_and_halt; load_image; commit }
FlashSteps(do_flash) ==
  IF ~do_flash THEN << >>
  ELSE << Op("reset_and_halt", 0, 0), Op("load_image", 0, 0), Op("commit", 0, 0) >>

\* if run_from_ram { PC, SP, VTOR and its read-back }
RamBootSteps(vt, vtor_ok) ==
  << Op("write_core_reg PC", 0, vt.reset),
     Op("write_core_reg SP", 0, vt.initial_sp),
     Op("write_word_32 0xE000ED08", 0, vt.location),
     Op("read_word_32 0xE000ED08", 0, 0) >>
  \o (IF vtor_ok THEN << >> ELSE << PanicStep("failed to set VTOR!") >>)

\* Mutant of FlashBootSteps: the core is not run to main.
FlashBootStepsNoHalt(rtt_addr, main_addr) ==
  << Op("write_word_32 0xdeadc0de", rtt_addr, 0) >>

\* if !run_from_ram { corrupt the control block, run to main }
FlashBootSteps(rtt_addr, main_addr) ==
  << Op("write_word_32 0xdeadc0de", rtt_addr, 0),
     Op("set_hw_breakpoint", main_addr, 0),
     Op("run", 0, 0),
     Op("wait_for_core_halted", 0, 0),
     Op("clear_hw_breakpoint", main_addr, 0) >>

\* Mutant of NoBreakpointUnits: the number of units is not looked at.
NoBreakpointUnitsNever(units) == FALSE

\* if core.available_breakpoint_units()? == 0
NoBreakpointUnits(units) == units = 0

\* The block that holds core 0, from sess.core(0) to the last core.run().
BootSteps(vt, rtt_addr, main_addr, ch) ==
  LET run_from_ram == RunFromRam(ch.region)
  IN << Op("core", 0, 0) >>
     \o (IF run_from_ram
           THEN << Op("read_word_32", vt.location, 0),
                   Op("write_word_32", vt.location, 0) >>
           ELSE << >>)
     \o << Op("reset_and_halt", 0, 0), Op("available_breakpoint_units", 0, 0) >>
     \o (IF NoBreakpointUnits(ch.units)
           THEN << Bail("RTT not supported on device without HW breakpoints") >>
           ELSE (IF run_from_ram THEN RamBootSteps(vt, ch.vtor_ok)
                 ELSE FlashBootSteps(rtt_addr, main_addr))
                \o << Op("write_word_32", rtt_addr + OFFSET, FLAG) >>
                \o (IF run_from_ram
                      THEN << Op("write_8", ClearThumb(vt.hard_fault), 0) >>
                      ELSE << Op("set_hw_breakpoint", ClearThumb(vt.hard_fault), 0) >>)
                \o << Op("run", 0, 0) >>)

\* Runner::new up to the call of setup_logging_channel, as the sequence of
\* steps it takes for this ELF, these options and this target when every
\* operation succeeds; it ends at the first bail or panic.
NewPlan(e, o, ch) ==
  LET scan == ScanSections(e.sections, None)
  IN IF scan.err # "" THEN << Bail(scan.err) >>
     ELSE IF scan.vector_table = None
       THEN << Bail(".vector_table section is missing") >>
     ELSE LET vt == Unwrap(scan.vector_table)
              syms == GetRttMainFrom(e.symbols)
          IN << Op("reset other cores", 0, 0) >>
             \o (IF ch.region = "none"
                   THEN << PanicStep("run_from_ram.unwrap()") >>
                   ELSE FlashSteps(o.do_flash)
                        \o (IF syms.main = None
                              THEN << Bail("main symbol not found") >>
                            ELSE IF syms.rtt = None
                              THEN << Bail("RTT is missing") >>
                            ELSE BootSteps(vt, Unwrap(syms.rtt), Unwrap(syms.main), ch)))

\* for try_index in 0..=NUM_RETRIES
AttachRange == 0..NUM_RETRIES

\* Mutant of Retry: ControlBlockNotFound is always retried.
RetryAlways(i) == TRUE

\* if try_index < NUM_RETRIES
Retry(i) == i < NUM_RETRIES

\* What Runner::new returns.
NewOk == [ok |-> TRUE, err |-> ""]
NewErr(msg) == [ok |-> FALSE, err |-> msg]

\* ELF files: a .vector_table (possibly empty or misaligned, with any
\* initial_sp and reset words) and a .text, or a .text alone; symbols
\* with or without main and _SEGGER_RTT.
VectorTableSections ==
  { [name |-> ".vector_table", start |-> st, size |-> sz,
     data |-> << sp, reset, 0, 25 >>] :
      st \in {16, 18}, sz \in {0, 16, 18}, sp \in {64, 66}, reset \in {20, 21} }
TextSections ==
  { [name |-> ".text", start |-> st, size |-> 8, data |-> << 0, 0 >>] : st \in {32, 34} }
SymbolTables ==
  { << >>,
    << [name |-> "main", address |-> 41] >>,
    << [name |-> "_SEGGER_RTT", address |-> 96] >>,
    << [name |-> "main", address |-> 41], [name |-> "_SEGGER_RTT", address |-> 96] >> }
Elves ==
  { [sections |-> secs, symbols |-> syms] :
      secs \in { << v, t >> : v \in VectorTableSections, t \in TextSections }
               \cup { << t >> : t \in TextSections },
      syms \in SymbolTables }

\* Targets: the region of the memory map that holds the vector table, the
\* breakpoint units of core 0, and whether VTOR reads back as written.
Chips ==
  { [region |-> rg, units |-> u, vtor_ok |-> v] :
      rg \in {"Ram", "Generic", "Nvm", "none"}, u \in {0, 2}, v \in BOOLEAN }

\* run() calls Runner::new with an ELF, options and an open session.
InitNew ==
  /\ ServerInit /\ RunIdle /\ ProbeIdle /\ ExtIdle /\ now = 0
  /\ elf \in Elves
  /\ opts \in {[do_flash |-> f, deadline |-> None] : f \in BOOLEAN}
  /\ chip \in Chips
  /\ new_pc = 1
  /\ ops = << >>
  /\ try_index = 0
  /\ new_result = None

\* The next step of the plan.  An operation is issued and returns Ok or Err;
\* an Err leaves Runner::new through ?.
NewStep(ok) ==
  /\ new_result = None
  /\ new_pc \in 1..Len(NewPlan(elf, opts, chip))
  /\ LET item == NewPlan(elf, opts, chip)[new_pc]
     IN IF item.kind = "bail"
          THEN /\ new_result' = Some(NewErr(item.name))
               /\ UNCHANGED << ops, new_pc >>
        ELSE IF item.kind = "panic"
          THEN /\ new_result' = Some(NewErr("panic"))
               /\ UNCHANGED << ops, new_pc >>
        ELSE /\ ops' = Append(ops, [name |-> item.name, addr |-> item.addr,
                                    val |-> item.val,
                                    res |-> IF ok THEN "Ok" ELSE "Err"])
             /\ IF ok THEN new_pc' = new_pc + 1 /\ UNCHANGED new_result
                ELSE new_result' = Some(NewErr(item.name)) /\ UNCHANGED new_pc
  /\ UNCHANGED << serverVars, extVars, elf, opts, chip, try_index, runVars, now, probeVars >>

\* One iteration of the loop of setup_logging_channel, and what follows the
\* loop when it is left: Rtt::attach_region at Exact(rtt_addr) returns res;
\* after a success up-channel 0 is looked up (up0: it exists).
Attach(res, up0) ==
  /\ new_result = None
  /\ new_pc = Len(NewPlan(elf, opts, chip)) + 1
  /\ try_index \in AttachRange
  /\ LET rtt_addr == Unwrap(GetRttMainFrom(elf.symbols).rtt)
     IN ops' = Append(ops, [name |-> "attach_region", addr |-> rtt_addr,
                            val |-> 0, res |-> res])
  /\ IF res = "Ok"
       THEN /\ new_result' = Some(IF up0 THEN NewOk
                                  ELSE NewErr("RTT up channel 0 not found"))
            /\ UNCHANGED try_index
     ELSE IF res = "ControlBlockNotFound"
       THEN IF Retry(try_index)
              THEN IF try_index + 1 \in AttachRange
                     THEN try_index' = try_index + 1 /\ UNCHANGED new_result
                     ELSE \* the loop ends on an Err: rtt_res.expect("unreachable")
                          /\ new_result' = Some(NewErr("panic"))
                          /\ UNCHANGED try_index
              ELSE /\ new_result' = Some(NewErr("ControlBlockNotFound"))
                   /\ UNCHANGED try_index
     ELSE /\ new_result' = Some(NewErr(res))
          /\ UNCHANGED try_index
  /\ UNCHANGED << serverVars, extVars, elf, opts, chip, new_pc, runVars, now, probeVars >>

\* SpecNew: one Runner::new on any of the ELF files and targets above, with
\* probe operations that may fail.
NextNew ==
  \/ \E ok \in BOOLEAN : NewStep(ok)
  \/ \E res \in {"Ok", "ControlBlockNotFound", "Other"}, up0 \in BOOLEAN : Attach(res, up0)

SpecNew == InitNew /\ [][NextNew]_vars

\* ================================================= the engine: Runner::run
\* ------------------------------------------------------------------ bounds
BufLen == 2       \* bytes one read of poll() takes at most (read_buf holds 1024)
UpBufCap == 3     \* capacity of the target's RTT up buffer, in bytes
MaxIters == 4     \* samples of the halted state a run takes at most
MaxNow == 3       \* clock ticks that pass during a run at most

\* info!(..) and warn!(..) in teleprobe::run.
InfoRun(msg) == [target |-> <<"teleprobe", "run">>, level |-> "Info", msg |-> msg]
WarnRun(msg) == [target |-> <<"teleprobe", "run">>, level |-> "Warn", msg |-> msg]

\* Values a read of XPSR may return: thread mode, HardFault (3), SVCall (11),
\* and HardFault with flag bits set above the exception number.
XpsrValues == {16777216, 16777219, 16777227, 1627389955}

\* Mutant of ExceptionNumber: the mask is left out.
ExceptionNumberUnmasked(xpsr) == xpsr

\* xpsr & 0xff
ExceptionNumber(xpsr) == xpsr % 256

\* Where a probe operation of a dump fails, if any does: sess.core(0),
\* core.halt, the read of XPSR, the register reads, the stack read and the
\* unwinding of traceback, the reads of HFSR/CFSR/BFAR.
DumpFailures == {"none", "core", "halt", "xpsr", "regs", "stack", "unwind", "hfsr"}

\* The four register rows and the XPSR row of traceback.
RegisterRows ==
  << InfoRun("  R0:"), InfoRun("  R4:"), InfoRun("  R8:"), InfoRun(" R12:"),
     InfoRun("XPSR:") >>

\* traceback: the records it logs and whether it returned Ok.  The register
\* reads precede the rows, the stack read follows "Stack:", the unwinding
\* follows "Backtrace:"; each returns early when it fails.
Traceback(fail) ==
  IF fail = "regs" THEN [log |-> << >>, ok |-> FALSE]
  ELSE IF fail = "stack"
    THEN [log |-> RegisterRows \o << InfoRun(""), InfoRun("Stack:") >>, ok |-> FALSE]
  ELSE IF fail = "unwind"
    THEN [log |-> RegisterRows \o << InfoRun(""), InfoRun("Stack:"),
                    InfoRun("stack rows"), InfoRun(""), InfoRun("Backtrace:") >>,
          ok |-> FALSE]
  ELSE [log |-> RegisterRows \o << InfoRun(""), InfoRun("Stack:"),
                  InfoRun("stack rows"), InfoRun(""), InfoRun("Backtrace:"),
                  InfoRun("Frame 0:") >>,
        ok |-> TRUE]

\* Mutant of IsHardFault: every exception counts as a HardFault.
IsHardFaultAnyException(exception_number) == exception_number # 0

\* The arm "3 =>" of the match on exception_number.
IsHardFault(exception_number) == exception_number = 3

\* info!("Exception {}", exception_number)
ExceptionRecord(exception_number) ==
  InfoRun("Exception " \o ToString(exception_number))

\* Mutant of DumpState: the force flag is ignored.
DumpStateUnforced(force, xpsr, fail) ==
  IF fail \in {"halt", "xpsr"} THEN [log |-> << >>, res |-> "Err"]
  ELSE LET exception_number == ExceptionNumber(xpsr)
           tb == Traceback(fail)
       IN IF exception_number = 0 THEN [log |-> << >>, res |-> "false"]
          ELSE IF ~tb.ok THEN [log |-> tb.log, res |-> "Err"]
          ELSE IF IsHardFault(exception_number)
            THEN [log |-> Append(tb.log, InfoRun("Hard Fault!")),
                  res |-> IF fail = "hfsr" THEN "Err" ELSE "true"]
          ELSE [log |-> Append(tb.log, ExceptionRecord(exception_number)), res |-> "false"]

\* dump_state(core, force) when XPSR reads as xpsr: the records it logs and
\* its result, Ok(true), Ok(false) or Err.
DumpState(force, xpsr, fail) ==
  IF fail \in {"halt", "xpsr"} THEN [log |-> << >>, res |-> "Err"]
  ELSE LET exception_number == ExceptionNumber(xpsr)
           tb == Traceback(fail)
       IN IF exception_number = 0
            THEN IF ~force THEN [log |-> << >>, res |-> "false"]
                 ELSE IF ~tb.ok THEN [log |-> tb.log, res |-> "Err"]
                 ELSE [log |-> tb.log, res |-> "false"]
          ELSE IF ~tb.ok THEN [log |-> tb.log, res |-> "Err"]
          ELSE IF IsHardFault(exception_number)
            THEN [log |-> Append(tb.log, InfoRun("Hard Fault!")),
                  res |-> IF fail = "hfsr" THEN "Err" ELSE "true"]
          ELSE [log |-> Append(tb.log, ExceptionRecord(exception_number)), res |-> "false"]

\* Mutant of ShouldBreak: one halted sample ends the loop.
ShouldBreakOnHalt(is_halted, was) == is_halted

\* if is_halted && was_halted { break; }
ShouldBreak(is_halted, was) == is_halted /\ was

\* Instant::now() > deadline
DeadlinePassed(deadline, t) == deadline # None /\ t > Unwrap(deadline)

Running == rpc \notin {"idle", "done"}

\* Runner::new has returned: the core was released by its last core.run(),
\* the RTT channel is attached, and run() is about to enter its loop.
InitRun ==
  /\ ServerInit /\ ProbeIdle /\ ExtIdle
  /\ elf = None /\ chip = None /\ new_pc = 0 /\ ops = << >>
  /\ try_index = 0 /\ new_result = None
  /\ opts \in {[do_flash |-> TRUE, deadline |-> d] :
                 d \in {None} \cup {Some(t) : t \in 0..(MaxNow - 1)}}
  /\ now = 0
  /\ rpc = "deadline" /\ was_halted = FALSE /\ core_halted = FALSE
  /\ up_buffer = 0 /\ obs = << >> /\ rlog = << >> /\ dumped = None
  /\ run_result = None /\ fired = FALSE

\* Time passes.
Tick ==
  /\ Running
  /\ now < MaxNow
  /\ now' = now + 1
  /\ UNCHANGED << serverVars, extVars, newVars, runVars, probeVars >>

\* The firmware writes a byte to up-channel 0.  In BLOCK_IF_FULL mode it
\* waits while the buffer is full.
FirmwareWrite ==
  /\ Running
  /\ ~core_halted
  /\ up_buffer < UpBufCap
  /\ up_buffer' = up_buffer + 1
  /\ UNCHANGED << serverVars, extVars, newVars, now, probeVars, rpc, was_halted,
                  core_halted, obs, rlog, dumped, run_result, fired >>

\* The core halts: a breakpoint instruction, or the breakpoint set on the
\* HardFault handler.
FirmwareHalt ==
  /\ Running
  /\ ~core_halted
  /\ core_halted' = TRUE
  /\ UNCHANGED << serverVars, extVars, newVars, now, probeVars, rpc, was_halted,
                  up_buffer, obs, rlog, dumped, run_result, fired >>

\* A halted core runs again (a reset of the target passes through a halted
\* state).
CoreResume ==
  /\ Running
  /\ core_halted
  /\ core_halted' = FALSE
  /\ UNCHANGED << serverVars, extVars, newVars, now, probeVars, rpc, was_halted,
                  up_buffer, obs, rlog, dumped, run_result, fired >>

\* Top of the loop of Runner::run: the deadline check.  When it fires the
\* run warns, dumps the state with force set, and bails.
DeadlineCheck(xpsr, fail) ==
  /\ rpc = "deadline"
  /\ IF DeadlinePassed(opts.deadline, now)
       THEN LET d == DumpState(TRUE, xpsr, fail)
            IN /\ fired' = TRUE
               /\ rpc' = "done"
               /\ IF fail = "core"
                    THEN /\ rlog' = Append(rlog, WarnRun("Deadline exceeded!"))
                         /\ run_result' = Some("probe error")
                         /\ UNCHANGED << dumped, core_halted >>
                    ELSE /\ rlog' = Append(rlog, WarnRun("Deadline exceeded!")) \o d.log
                         /\ dumped' = Some([force |-> TRUE, xpsr |-> xpsr, fail |-> fail])
                         /\ core_halted' = (IF fail = "halt" THEN core_halted ELSE TRUE)
                         /\ run_result' = Some(IF d.res = "Err" THEN "probe error"
                                                ELSE "Deadline exceeded")
       ELSE /\ rpc' = "poll"
            /\ UNCHANGED << fired, rlog, dumped, core_halted, run_result >>
  /\ UNCHANGED << serverVars, extVars, newVars, now, probeVars, was_halted, up_buffer, obs >>

\* poll(): one read of up-channel 0 into read_buf; the bytes read go to the
\* defmt stream decoder, whose frames are logged as "device" records (not
\* kept in rlog).  The read may fail, and so may the decoding of what was
\* read when the encoding cannot recover.
Poll(res) ==
  /\ rpc = "poll"
  /\ LET n == Min(up_buffer, BufLen)
     IN IF res = "read error"
          THEN /\ run_result' = Some("probe error")
               /\ rpc' = "done"
               /\ UNCHANGED up_buffer
        ELSE IF res = "malformed" /\ n > 0
          THEN /\ up_buffer' = up_buffer - n
               /\ run_result' = Some("failed to decode defmt data")
               /\ rpc' = "done"
        ELSE /\ up_buffer' = up_buffer - n
             /\ rpc' = "observe"
             /\ UNCHANGED run_result
  /\ UNCHANGED << serverVars, extVars, newVars, now, probeVars, was_halted, core_halted,
                  obs, rlog, dumped, fired >>

\* The rest of an iteration: core.core_halted() is sampled and compared with
\* the sample of the iteration before.
Observe(ok) ==
  /\ rpc = "observe"
  /\ Len(obs) < MaxIters
  /\ IF ~ok
       THEN /\ run_result' = Some("probe error")
            /\ rpc' = "done"
            /\ UNCHANGED << obs, was_halted >>
       ELSE LET is_halted == core_halted
            IN /\ obs' = Append(obs, is_halted)
               /\ rpc' = (IF ShouldBreak(is_halted, was_halted) THEN "finish"
                          ELSE "deadline")
               /\ was_halted' = (IF ShouldBreak(is_halted, was_halted)
                                   THEN was_halted ELSE is_halted)
               /\ UNCHANGED run_result
  /\ UNCHANGED << serverVars, extVars, newVars, now, probeVars, core_halted, up_buffer,
                  rlog, dumped, fired >>

\* After the loop: dump_state without force; a HardFault makes the run bail.
Finish(xpsr, fail) ==
  /\ rpc = "finish"
  /\ rpc' = "done"
  /\ LET d == DumpState(FALSE, xpsr, fail)
     IN IF fail = "core"
          THEN /\ run_result' = Some("probe error")
               /\ UNCHANGED << rlog, dumped, core_halted >>
          ELSE /\ rlog' = rlog \o d.log
               /\ dumped' = Some([force |-> FALSE, xpsr |-> xpsr, fail |-> fail])
               /\ core_halted' = (IF fail = "halt" THEN core_halted ELSE TRUE)
               /\ run_result' = Some(IF d.res = "Err" THEN "probe error"
                                      ELSE IF d.res = "true" THEN "Firmware crashed"
                                      ELSE "Ok")
  /\ UNCHANGED << serverVars, extVars, newVars, now, probeVars, was_halted, up_buffer,
                  obs, fired >>

\* SpecRun: one Runner::run with any deadline, a firmware that writes, halts
\* and resumes at any time, and probe operations that may fail.
NextRun ==
  \/ Tick
  \/ FirmwareWrite
  \/ FirmwareHalt
  \/ CoreResume
  \/ \E xpsr \in XpsrValues, fail \in DumpFailures : DeadlineCheck(xpsr, fail)
  \/ \E res \in {"ok", "read error", "malformed"} : Poll(res)
  \/ \E ok \in BOOLEAN : Observe(ok)
  \/ \E xpsr \in XpsrValues, fail \in DumpFailures : Finish(xpsr, fail)

SpecRun == InitRun /\ [][NextRun]_vars

\* ===================================================== probe::connect
SETTLE_REPROBE_INTERVAL == 250   \* milliseconds
CYCLE_DELAY == 1000              \* milliseconds: power_reset(.., 1.0)
MaxSettleSteps == 4   \* max_settle_time_millis is drawn up to 125 times this

\* open_probe: without a selector the one attached probe is opened, and no
\* probe or several are an error; with a selector the lister opens the
\* probe it selects.  nprobes probes are attached; opens: the open succeeds.
OpenProbe(probe, nprobes, opens) ==
  IF probe = None
    THEN IF nprobes = 0 THEN "no probe was found"
         ELSE IF nprobes > 1 THEN "more than one probe found"
         ELSE IF opens THEN "Ok" ELSE "open failed"
    ELSE IF nprobes > 0 /\ opens THEN "Ok" ELSE "open failed"

\* Mutant of Expired: the loop gives up at once.
ExpiredAlways(t, e) == TRUE

\* Instant::now() > end
Expired(t, e) == t > e

ConnectErr(msg) == [ok |-> FALSE, err |-> msg]
ConnectOk == [ok |-> TRUE, err |-> ""]

\* connect is called with a selector or none and some max_settle_time_millis.
InitProbe ==
  /\ ServerInit /\ NewIdle /\ RunIdle /\ ExtIdle
  /\ now = 0
  /\ probe_opts \in { [probe |-> p, power_reset |-> pr,
                       max_settle_time_millis |-> 125 * k] :
                        p \in {None, Some("serial")}, pr \in BOOLEAN,
                        k \in 0..MaxSettleSteps }
  /\ end = None
  /\ cpc = "start"
  /\ attempts = << >>
  /\ connect_result = None
  /\ cycle_writes = << >>
  /\ power_res = None

\* connect up to the power reset or, without one, up to the loop: a power
\* reset needs a selector; without a power reset end is set at once.
ConnectStart ==
  /\ cpc = "start"
  /\ IF probe_opts.power_reset /\ probe_opts.probe = None
       THEN /\ connect_result' = Some(ConnectErr("power reset requires a serial number"))
            /\ cpc' = "done"
            /\ UNCHANGED end
     ELSE IF probe_opts.power_reset
       THEN /\ cpc' = "power"
            /\ UNCHANGED << end, connect_result >>
     ELSE /\ end' = Some(now + probe_opts.max_settle_time_millis)
          /\ cpc' = "loop"
          /\ UNCHANGED connect_result
  /\ UNCHANGED << serverVars, extVars, newVars, runVars, now, probe_opts, attempts,
                  cycle_writes, power_res >>

\* Mutant of CycleWrites: the port is enabled first and disabled last.
CycleWritesReversed(outcome) ==
  IF outcome = "Ok" THEN << "0", "1" >>
  ELSE IF outcome = "enable failed" THEN << "0" >>
  ELSE << >>

\* What power_reset writes to the disable file of the port, in order, when
\* it ends with outcome: it returns early, through ?, when the device is not
\* found or its port directory cannot be opened, when disable cannot be
\* opened or written the first time, and when it cannot the second time.
CycleWrites(outcome) ==
  IF outcome = "Ok" THEN << "1", "0" >>
  ELSE IF outcome = "enable failed" THEN << "1" >>
  ELSE << >>

PowerOutcomes == {"not found", "disable failed", "enable failed", "Ok"}

\* power_reset(serial, 1.0) as connect calls it, from its call to its return:
\* the writes, with the sleep of CYCLE_DELAY (or longer, by oversleep) after
\* the first one.  connect only logs an Err, and then sets end.
PowerReset(outcome, oversleep) ==
  /\ cpc = "power"
  /\ LET vals == CycleWrites(outcome)
         slept == IF Len(vals) > 0 THEN CYCLE_DELAY + oversleep ELSE 0
     IN /\ cycle_writes' = [i \in 1..Len(vals) |->
                              [val |-> vals[i], at |-> IF i = 1 THEN now ELSE now + slept]]
        /\ now' = now + slept
        /\ end' = Some(now + slept + probe_opts.max_settle_time_millis)
  /\ power_res' = Some(IF outcome = "Ok" THEN "Ok" ELSE "Err")
  /\ cpc' = "loop"
  /\ UNCHANGED << serverVars, extVars, newVars, runVars, probe_opts, attempts,
                  connect_result >>

\* Time passes between two steps of connect.
Elapse ==
  /\ cpc = "loop"
  /\ now <= Unwrap(end)
  /\ now' = now + 125
  /\ UNCHANGED << serverVars, extVars, newVars, runVars, probeVars >>

\* One iteration of the settle loop: the check of end, the sleep (which may
\* last longer than asked by oversleep), and open_probe, which takes dur.
SettleIteration(nprobes, opens, oversleep, dur) ==
  /\ cpc = "loop"
  /\ IF Expired(now, Unwrap(end))
       THEN /\ connect_result' =
                 Some(ConnectErr("Probe did not appear after the max settle time."))
            /\ cpc' = "done"
            /\ UNCHANGED << now, attempts >>
       ELSE LET at == now + SETTLE_REPROBE_INTERVAL + oversleep
                res == OpenProbe(probe_opts.probe, nprobes, opens)
            IN /\ attempts' = Append(attempts, [at |-> at, res |-> res])
               /\ now' = at + dur
               /\ cpc' = (IF res = "Ok" THEN "opened" ELSE "loop")
               /\ UNCHANGED connect_result
  /\ UNCHANGED << serverVars, extVars, newVars, runVars, probe_opts, end, cycle_writes,
                  power_res >>

\* connect after the loop: speed, protocol and the attach, any of which may
\* fail.
ConnectFinish(ok) ==
  /\ cpc = "opened"
  /\ connect_result' = Some(IF ok THEN ConnectOk ELSE ConnectErr("attach failed"))
  /\ cpc' = "done"
  /\ UNCHANGED << serverVars, extVars, newVars, runVars, now, probe_opts, end, attempts,
                  cycle_writes, power_res >>

\* SpecProbe: one connect.  The thread that runs it is never suspended for
\* good: sleep and open_probe return, so a step that can be taken is taken.
NextProbe ==
  \/ ConnectStart
  \/ \E outcome \in PowerOutcomes, oversleep \in {0, 125} : PowerReset(outcome, oversleep)
  \/ Elapse
  \/ \E nprobes \in 0..2, opens \in BOOLEAN, oversleep \in {0, 125}, dur \in {0, 125} :
       SettleIteration(nprobes, opens, oversleep, dur)
  \/ \E ok \in BOOLEAN : ConnectFinish(ok)

SpecProbe == InitProbe /\ [][NextProbe]_vars /\ WF_vars(NextProbe)

\* ============================================ server::run_firmware_on_device
CONNECT_TRIES == 10    \* for _ in 0..10
RETRY_SLEEP == 300     \* milliseconds slept after a failed connect

\* Mutant of ConnectAgain: a failed connect is not repeated.
ConnectAgainNever(n) == FALSE

\* for _ in 0..10: the loop body runs again after n iterations.
ConnectAgain(n) == n < CONNECT_TRIES

\* What run_firmware_on_device returns.
DeviceOk == [ok |-> TRUE, err |-> ""]
DeviceErr(msg) == [ok |-> FALSE, err |-> msg]

\* run_firmware_on_device is called with a target's probe options and a
\* timeout in seconds; res starts as Err(anyhow!("bah")).
InitDevice ==
  /\ ServerInit /\ NewIdle /\ RunIdle /\ DeviceRestIdle
  /\ now = 0
  /\ probe_opts \in { [probe |-> p, power_reset |-> pr,
                       max_settle_time_millis |-> ms] :
                        p \in {None, Some("serial")}, pr \in BOOLEAN,
                        ms \in {0, 250} }
  /\ end = None /\ cpc = "idle" /\ attempts = << >> /\ connect_result = None
  /\ cycle_writes = << >> /\ power_res = None
  /\ dpc = "loop"
  /\ rf_timeout \in {Some(0), Some(1)}
  /\ tries = 0
  /\ conn_res = Some(ConnectErr("bah"))
  /\ run_deadline = None
  /\ run_calls = 0
  /\ device_result = None

\* Top of the for loop: another connect(&probe) is called, or the loop is
\* over and res? is evaluated.
DeviceLoop ==
  /\ dpc = "loop"
  /\ IF ConnectAgain(tries)
       THEN /\ dpc' = "connect"
            /\ tries' = tries + 1
            /\ cpc' = "start"
            /\ end' = None /\ attempts' = << >> /\ connect_result' = None
            /\ cycle_writes' = << >> /\ power_res' = None
       ELSE /\ dpc' = "unwrap"
            /\ UNCHANGED << tries, cpc, end, attempts, connect_result, cycle_writes,
                            power_res >>
  /\ UNCHANGED << serverVars, deviceRest, newVars, runVars, now, probe_opts, rf_timeout,
                  conn_res, run_deadline, run_calls, device_result >>

\* connect has returned: res = connect(&probe); an Ok breaks the loop, an Err
\* is followed by the sleep.
DeviceConnected ==
  /\ dpc = "connect"
  /\ cpc = "done"
  /\ conn_res' = connect_result
  /\ cpc' = "idle"
  /\ IF Unwrap(connect_result).ok
       THEN dpc' = "unwrap" /\ now' = now
       ELSE dpc' = "loop" /\ now' = now + RETRY_SLEEP
  /\ UNCHANGED << serverVars, deviceRest, newVars, runVars, probe_opts, end, attempts,
                  connect_result, cycle_writes, power_res, rf_timeout, tries,
                  run_deadline, run_calls, device_result >>

\* let mut sess = res?; then the options with the deadline are built.
DeviceUnwrap ==
  /\ dpc = "unwrap"
  /\ IF Unwrap(conn_res).ok
       THEN /\ run_deadline' = Some(now + 1000 * Unwrap(rf_timeout))
            /\ run_calls' = run_calls + 1
            /\ dpc' = "run"
            /\ UNCHANGED device_result
       ELSE /\ device_result' = Some(DeviceErr(Unwrap(conn_res).err))
            /\ dpc' = "done"
            /\ UNCHANGED << run_deadline, run_calls >>
  /\ UNCHANGED << serverVars, deviceRest, engineVars, rf_timeout, tries, conn_res >>

\* run::run(&mut sess, &elf, opts)? returns.
DeviceRun(ok) ==
  /\ dpc = "run"
  /\ device_result' = Some(IF ok THEN DeviceOk ELSE DeviceErr("run failed"))
  /\ dpc' = "done"
  /\ UNCHANGED << serverVars, deviceRest, engineVars, rf_timeout, tries, conn_res, run_deadline,
                  run_calls >>

\* SpecDevice: one run_firmware_on_device, with the connect of SpecProbe
\* inside its loop.
NextDevice ==
  \/ DeviceLoop
  \/ ConnectStart
  \/ \E outcome \in {"not found", "Ok"} : PowerReset(outcome, 0)
  \/ \E nprobes \in 0..1, opens \in BOOLEAN : SettleIteration(nprobes, opens, 0, 0)
  \/ \E ok \in BOOLEAN : ConnectFinish(ok)
  \/ DeviceConnected
  \/ DeviceUnwrap
  \/ \E ok \in BOOLEAN : DeviceRun(ok)

SpecDevice == InitDevice /\ [][NextDevice]_vars

\* ===================================================== probe::power_reset
\* Every target of the configuration has power_reset: true and a probe
\* selector with a serial number, each probe on a hub port of its own.
PortOf(r) == Unwrap(req[r]).name

\* connect calls power_reset(serial, 1.0) when opts.power_reset is set:
\* the device with the probe's serial number is looked up and its port
\* directory opened; either may fail, which connect only logs.
PowerFind(r, ok) ==
  /\ ~aborted
  /\ job[r] = "running"
  /\ pw[r] = "none"
  /\ pw' = [pw EXCEPT ![r] = IF ok THEN "opened" ELSE "failed"]
  /\ UNCHANGED << serverVars, engineVars, powerRest, port_disable >>

\* write_all(b"1") to the disable file of the port; the sleep follows.
PowerDisable(r, ok) ==
  /\ ~aborted
  /\ pw[r] = "opened"
  /\ IF ok
       THEN /\ port_disable' = [port_disable EXCEPT ![PortOf(r)] = "1"]
            /\ pw' = [pw EXCEPT ![r] = "disabled"]
       ELSE /\ pw' = [pw EXCEPT ![r] = "failed"]
            /\ UNCHANGED port_disable
  /\ UNCHANGED << serverVars, engineVars, powerRest >>

\* After the sleep: write_all(b"0") to the disable file.
PowerEnable(r, ok) ==
  /\ ~aborted
  /\ pw[r] = "disabled"
  /\ IF ok
       THEN /\ port_disable' = [port_disable EXCEPT ![PortOf(r)] = "0"]
            /\ pw' = [pw EXCEPT ![r] = "done"]
       ELSE /\ pw' = [pw EXCEPT ![r] = "failed"]
            /\ UNCHANGED port_disable
  /\ UNCHANGED << serverVars, engineVars, powerRest >>

\* SpecPower: authenticated requests for the configured targets from clients
\* that stay connected; each run power-cycles its probe at the start of
\* connect, and the rest of the engine is what the server sees of it.
NextPower ==
  \/ \E r \in Reqs, name \in ConfigTargets : Arrive(r, name, GoodHeader, None)
  \/ \E r \in Reqs : LockAcquired(r)
  \/ \E r \in Reqs : WorkerStart(r)
  \/ \E r \in Reqs, ok \in BOOLEAN : PowerFind(r, ok)
  \/ \E r \in Reqs, ok \in BOOLEAN : PowerDisable(r, ok)
  \/ \E r \in Reqs, ok \in BOOLEAN : PowerEnable(r, ok)
  \/ \E r \in Reqs, ok \in BOOLEAN :
       pw[r] \in {"done", "failed"} /\ EngineReturn(r, ok)
  \/ \E r \in Reqs : Respond(r)

SpecPower == Init /\ [][NextPower]_vars

\* ======================================================== ProbeSpecifier
\* A string is the sequence of its characters.
\* char::to_digit(16): the value of a hex digit, -1 for any other character.
ToDigit(c) ==
  CASE c = "0" -> 0 [] c = "1" -> 1 [] c = "2" -> 2 [] c = "3" -> 3
    [] c = "4" -> 4 [] c = "5" -> 5 [] c = "6" -> 6 [] c = "7" -> 7
    [] c = "8" -> 8 [] c = "9" -> 9
    [] c \in {"a", "A"} -> 10 [] c \in {"b", "B"} -> 11 [] c \in {"c", "C"} -> 12
    [] c \in {"d", "D"} -> 13 [] c \in {"e", "E"} -> 14 [] c \in {"f", "F"} -> 15
    [] OTHER -> -1

\* The lowercase digit {:x} writes for a value below 16.
LowerDigit(d) ==
  << "0", "1", "2", "3", "4", "5", "6", "7", "8", "9",
     "a", "b", "c", "d", "e", "f" >>[d + 1]

\* s.split(':'): the pieces between the colons, at least one.
RECURSIVE SplitFrom(_, _, _)
SplitFrom(s, i, cur) ==
  IF i > Len(s) THEN << cur >>
  ELSE IF s[i] = ":" THEN << cur >> \o SplitFrom(s, i + 1, << >>)
  ELSE SplitFrom(s, i + 1, Append(cur, s[i]))
Split(s) == SplitFrom(s, 1, << >>)

\* The digits of u16::from_str_radix, accumulated from the left: None for
\* a character that is no digit and for a value above u16::MAX.
RECURSIVE ParseDigits(_, _, _)
ParseDigits(s, i, acc) ==
  IF i > Len(s) THEN Some(acc)
  ELSE IF ToDigit(s[i]) < 0 THEN None
  ELSE IF acc * 16 + ToDigit(s[i]) > 65535 THEN None
  ELSE ParseDigits(s, i + 1, acc * 16 + ToDigit(s[i]))

\* u16::from_str_radix(s, 16): an empty string and a lone sign are errors,
\* one leading + is skipped.
FromStrRadix16(s) ==
  IF s = << >> THEN None
  ELSE IF s[1] = "+"
    THEN IF Len(s) = 1 THEN None ELSE ParseDigits(s, 2, 0)
  ELSE ParseDigits(s, 1, 0)

\* The hex digits of n, most significant first, without padding.
RECURSIVE HexDigits(_)
HexDigits(n) ==
  IF n < 16 THEN << LowerDigit(n) >>
  ELSE Append(HexDigits(n \div 16), LowerDigit(n % 16))

\* Mutant of FormatHex: the field is padded to four digits, {:04x}.
FormatHexPadded(n) ==
  << LowerDigit((n \div 4096) % 16), LowerDigit((n \div 256) % 16),
     LowerDigit((n \div 16) % 16), LowerDigit(n % 16) >>

\* format!("{:x}", n)
FormatHex(n) == HexDigits(n)

SelectorErr == [ok |-> FALSE, vid_pid |-> None, serial |-> None]
SelectorOk(vid_pid, serial) == [ok |-> TRUE, vid_pid |-> vid_pid, serial |-> serial]

\* Some((vid, pid)) of two hex fields; None stands for the ? that leaves
\* from_str with the parse error.
VidPid(vid, pid) ==
  IF FromStrRadix16(vid) = None \/ FromStrRadix16(pid) = None THEN None
  ELSE Some(<< Unwrap(FromStrRadix16(vid)), Unwrap(FromStrRadix16(pid)) >>)

\* impl FromStr for ProbeSpecifier
FromStr(s) ==
  LET parts == Split(s)
  IN IF Len(parts) = 1 THEN SelectorOk(None, Some(parts[1]))
     ELSE IF Len(parts) = 2
       THEN IF VidPid(parts[1], parts[2]) = None THEN SelectorErr
            ELSE SelectorOk(VidPid(parts[1], parts[2]), None)
     ELSE IF Len(parts) = 3
       THEN IF VidPid(parts[1], parts[2]) = None THEN SelectorErr
            ELSE SelectorOk(VidPid(parts[1], parts[2]), Some(parts[3]))
     ELSE SelectorErr

\* impl Serialize for ProbeSpecifier; (None, None) panics, which from_str
\* never produces.
Serialize(p) ==
  IF p.vid_pid = None THEN Unwrap(p.serial)
  ELSE LET vid == Unwrap(p.vid_pid)[1]
           pid == Unwrap(p.vid_pid)[2]
       IN IF p.serial = None THEN FormatHex(vid) \o << ":" >> \o FormatHex(pid)
          ELSE FormatHex(vid) \o << ":" >> \o FormatHex(pid) \o << ":" >>
               \o Unwrap(p.serial)

\* Hex fields and serial numbers a selector string is put together from.
HexFields ==
  { << "c", "a", "f", "e" >>, << "1", "2", "3", "4" >>, << "0" >>,
    << "0", "4", "8", "3" >>, << "C", "A", "F", "E" >>, << "+", "1" >>,
    << >>, << "g" >>, << "1", "0", "0", "0", "0" >>, << "f", "f", "f", "f" >> }
Serials ==
  { << "s", "e", "r" >>, << "S", "N", "0", "0", "0", "1" >>, << >> }
SelectorInputs ==
  Serials
  \cup { v \o << ":" >> \o q : v \in HexFields, q \in HexFields }
  \cup { v \o << ":" >> \o q \o << ":" >> \o n :
           v \in HexFields, q \in HexFields, n \in Serials }
  \cup { << "a", ":", "b", ":", "c", ":", "d" >> }

InitSelector ==
  /\ ServerInit /\ NewIdle /\ RunIdle /\ now = 0 /\ ProbeIdle
  /\ SelectorRestIdle
  /\ sel_in \in { Some(x) : x \in SelectorInputs }
  /\ sel_parsed = None
  /\ sel_out = None

\* The string is parsed.
Parse ==
  /\ sel_in # None
  /\ sel_parsed = None
  /\ sel_parsed' = Some(FromStr(Unwrap(sel_in)))
  /\ UNCHANGED << serverVars, engineVars, selectorRest, sel_in, sel_out >>

\* The parsed value is serialized.
Format ==
  /\ sel_parsed # None
  /\ Unwrap(sel_parsed).ok
  /\ sel_out = None
  /\ sel_out' = Some(Serialize(Unwrap(sel_parsed)))
  /\ UNCHANGED << serverVars, engineVars, selectorRest, sel_in, sel_parsed >>

NextSelector == Parse \/ Format

SpecSelector == InitSelector /\ [][NextSelector]_vars

\* ================================================== ElfMetadata::from_elf
\* String::from_utf8 accepts data: the well-formed sequences of one to four
\* bytes, by lead byte, with the narrowed second byte after E0, ED, F0, F4.
Cont(b) == b \in 128..191
RECURSIVE Utf8From(_, _)
Utf8From(data, i) ==
  IF i > Len(data) THEN TRUE
  ELSE LET b == data[i]
           has(k) == i + k <= Len(data)
       IN IF b < 128 THEN Utf8From(data, i + 1)
          ELSE IF b \in 194..223
            THEN has(1) /\ Cont(data[i + 1]) /\ Utf8From(data, i + 2)
          ELSE IF b \in 224..239
            THEN /\ has(2)
                 /\ data[i + 1] \in (IF b = 224 THEN 160..191
                                     ELSE IF b = 237 THEN 128..159 ELSE 128..191)
                 /\ Cont(data[i + 2])
                 /\ Utf8From(data, i + 3)
          ELSE IF b \in 240..244
            THEN /\ has(3)
                 /\ data[i + 1] \in (IF b = 240 THEN 144..191
                                     ELSE IF b = 244 THEN 128..143 ELSE 128..191)
                 /\ Cont(data[i + 2]) /\ Cont(data[i + 3])
                 /\ Utf8From(data, i + 4)
          ELSE FALSE
FromUtf8Ok(data) == Utf8From(data, 1)

\* u32::from_le_bytes of four bytes, widened to u64.
FromLeBytes(data) ==
  data[1] + 256 * data[2] + 65536 * data[3] + 16777216 * data[4]

WarnClient(msg) == [target |-> <<"teleprobe", "client">>, level |-> "Warn", msg |-> msg]

MetaOk(target, tmo, log) ==
  [ok |-> TRUE, target |-> target, timeout |-> tmo, log |-> log]
MetaErr == [ok |-> FALSE, target |-> None, timeout |-> None, log |-> << >>]

\* The .teleprobe.target block: what meta.target becomes and what is logged.
\* An empty section leaves the target unset without a warning.
TargetOf(section) ==
  IF section = None \/ Unwrap(section).data = << >>
    THEN [target |-> None, log |-> << >>]
  ELSE IF FromUtf8Ok(Unwrap(section).data)
    THEN [target |-> Some(Unwrap(section).data), log |-> << >>]
  ELSE [target |-> None,
        log |-> << WarnClient(".teleprobe.target contents are not a valid utf8 string.") >>]

\* if data.len() == 4
TimeoutLengthOk(data) == Len(data) = 4

\* The .teleprobe.timeout block.
TimeoutOf(section) ==
  IF section = None THEN [timeout |-> None, log |-> << >>]
  ELSE IF TimeoutLengthOk(Unwrap(section).data)
    THEN [timeout |-> Some(FromLeBytes(Unwrap(section).data)), log |-> << >>]
  ELSE [timeout |-> None,
        log |-> << WarnClient(".teleprobe.timeout contents are not a valid u32.") >>]

\* ElfMetadata::from_elf.  object::File::parse may fail, and so may
\* section.data() of a section that is present (its header names bytes the
\* file does not hold); both leave through ?.
FromElf(e) ==
  IF ~e.parses THEN MetaErr
  ELSE IF e.target # None /\ ~Unwrap(e.target).readable THEN MetaErr
  ELSE IF e.timeout # None /\ ~Unwrap(e.timeout).readable THEN MetaErr
  ELSE MetaOk(TargetOf(e.target).target, TimeoutOf(e.timeout).timeout,
              TargetOf(e.target).log \o TimeoutOf(e.timeout).log)

\* A section of the file: absent, present with unreadable data, or present
\* with the data given.
Sections(datas) ==
  {None, Some([readable |-> FALSE, data |-> << >>])}
  \cup { Some([readable |-> TRUE, data |-> x]) : x \in datas }
TargetDatas ==
  { << >>, << 110 >>, << 110, 114, 102 >>, << 128 >>, << 195, 169 >>, << 195 >>,
    << 110, 255 >>, << 226, 130, 172 >>, << 237, 160, 128 >> }
TimeoutDatas ==
  { << >>, << 10, 0, 0 >>, << 10, 0, 0, 0 >>, << 1, 1, 0, 0 >>,
    << 0, 0, 0, 0, 0 >> }
ElfFiles ==
  { [parses |-> ps, target |-> t, timeout |-> tm] :
      ps \in BOOLEAN, t \in Sections(TargetDatas), tm \in Sections(TimeoutDatas) }

InitMeta ==
  /\ ServerInit /\ NewIdle /\ RunIdle /\ now = 0 /\ ProbeIdle
  /\ MetaRestIdle
  /\ meta_elf \in { Some(e) : e \in ElfFiles }
  /\ meta_result = None
  /\ meta_log = << >>

\* from_elf is called on the file.
CallFromElf ==
  /\ meta_elf # None
  /\ meta_result = None
  /\ meta_result' = Some(FromElf(Unwrap(meta_elf)))
  /\ meta_log' = FromElf(Unwrap(meta_elf)).log
  /\ UNCHANGED << serverVars, engineVars, metaRest, meta_elf >>

NextMeta == CallFromElf

SpecMeta == InitMeta /\ [][NextMeta]_vars

\* ============================================================ client::run
MaxFiles == 3     \* files given to one run command at most
BUFFERED == 2     \* buffer_unordered(2): jobs of one target in flight

ClientTargets == {"t1", "t2"}
Hashes == {"h1", "h2"}

\* A file of the command line: it cannot be read, or it is no ELF (from_elf
\* fails), or it is an ELF with the content hash and the optional
\* .teleprobe.target given.
FileKinds ==
  { [kind |-> "unreadable", hash |-> "h1", target |-> None],
    [kind |-> "not elf", hash |-> "h1", target |-> None] }
  \cup { [kind |-> "elf", hash |-> h, target |-> t] :
           h \in Hashes, t \in {None, Some("t1")} }

RECURSIVE SeqsUpTo(_, _)
SeqsUpTo(S, n) ==
  IF n = 0 THEN { << >> }
  ELSE SeqsUpTo(S, n - 1)
       \cup { Append(q, x) : q \in { p \in SeqsUpTo(S, n - 1) : Len(p) = n - 1 },
                             x \in S }

\* Mutant of CacheHit: the loaded cache is never consulted.
CacheHitNever(cache, hash) == FALSE

\* before_cache.files.contains_key(&hash)
CacheHit(cache, hash) == hash \in cache

\* cmd.target.clone().or(meta.target)
TargetFor(cmd, meta) == IF cmd # None THEN cmd ELSE meta

\* The jobs queued so far, over all targets.
Jobs == UNION { {jobs_by_target[t][k] : k \in 1..Len(jobs_by_target[t])} :
                 t \in DOMAIN jobs_by_target }
InFlight(t) ==
  { jobs_by_target[t][k] : k \in { j \in 1..Len(jobs_by_target[t]) :
      /\ posts[jobs_by_target[t][j]] > 0
      /\ job_result[jobs_by_target[t][j]] = "none" } }

\* run is called with --cache: load_cache returned the hashes of an earlier
\* run, or the empty default for a file that is missing or malformed.
InitClient ==
  /\ ServerInit /\ NewIdle /\ RunIdle /\ now = 0 /\ ProbeIdle
  /\ ClientRestIdle
  /\ files \in SeqsUpTo(FileKinds, MaxFiles)
  /\ cmd_target \in {None, Some("t2")}
  /\ before_cache \in {{}, {"h1"}}
  /\ cl_pc = "prepare"
  /\ idx = 1
  /\ jobs_by_target = [t \in ClientTargets |-> << >>]
  /\ skipped_jobs = << >>
  /\ reported = {}
  /\ posts = [i \in 1..Len(files) |-> 0]
  /\ job_result = [i \in 1..Len(files) |-> "none"]
  /\ after_cache = {}
  /\ saved_cache = None
  /\ client_result = None

\* One iteration of the first loop: the file is read, hashed and parsed, its
\* target is resolved, and it is skipped or queued.  Each failure leaves run
\* through ?.
Prepare ==
  /\ cl_pc = "prepare"
  /\ idx <= Len(files)
  /\ LET f == files[idx]
         target == TargetFor(cmd_target, f.target)
     IN IF f.kind # "elf" \/ target = None
          THEN /\ client_result' = Some("Err")
               /\ cl_pc' = "done"
               /\ UNCHANGED << idx, jobs_by_target, skipped_jobs, after_cache >>
        ELSE IF CacheHit(before_cache, f.hash)
          THEN /\ skipped_jobs' = Append(skipped_jobs, idx)
               /\ after_cache' = after_cache \cup {f.hash}
               /\ idx' = idx + 1
               /\ UNCHANGED << jobs_by_target, cl_pc, client_result >>
        ELSE /\ jobs_by_target' =
                  [jobs_by_target EXCEPT ![Unwrap(target)] = Append(@, idx)]
             /\ idx' = idx + 1
             /\ UNCHANGED << skipped_jobs, after_cache, cl_pc, client_result >>
  /\ UNCHANGED << serverVars, engineVars, clientRest, files, cmd_target,
                  before_cache, reported, posts, job_result, saved_cache >>

\* After the loop: the job count and every skipped file are logged.
ReportSkipped ==
  /\ cl_pc = "prepare"
  /\ idx > Len(files)
  /\ reported' = { skipped_jobs[k] : k \in 1..Len(skipped_jobs) }
  /\ cl_pc' = "run"
  /\ UNCHANGED << serverVars, engineVars, clientRest, files, cmd_target,
                  before_cache, idx, jobs_by_target, skipped_jobs, posts,
                  job_result, after_cache, saved_cache, client_result >>

\* run_job is polled for the first time and sends its POST: the jobs of a
\* target start in order, at most BUFFERED of them unfinished at a time.
StartJob(t, k) ==
  /\ cl_pc = "run"
  /\ k \in 1..Len(jobs_by_target[t])
  /\ posts[jobs_by_target[t][k]] = 0
  /\ \A j \in 1..(k - 1) : posts[jobs_by_target[t][j]] > 0
  /\ Cardinality(InFlight(t)) < BUFFERED
  /\ posts' = [posts EXCEPT ![jobs_by_target[t][k]] = @ + 1]
  /\ UNCHANGED << serverVars, engineVars, clientRest, files, cmd_target,
                  before_cache, cl_pc, idx, jobs_by_target, skipped_jobs, reported,
                  job_result, after_cache, saved_cache, client_result >>

\* The response of a job arrives (or its request fails) and run_job returns.
FinishJob(i, ok) ==
  /\ cl_pc = "run"
  /\ i \in DOMAIN posts
  /\ posts[i] > 0
  /\ job_result[i] = "none"
  /\ job_result' = [job_result EXCEPT ![i] = IF ok THEN "ok" ELSE "failed"]
  /\ UNCHANGED << serverVars, engineVars, clientRest, files, cmd_target,
                  before_cache, cl_pc, idx, jobs_by_target, skipped_jobs, reported,
                  posts, after_cache, saved_cache, client_result >>

\* What run_job returns: (true, job.hash) or (false, String::new()).
RunJobReturn(ok, hash) == IF ok THEN << TRUE, hash >> ELSE << FALSE, "" >>

\* Mutant of InsertResult: the hash of every result is inserted.
InsertResultAlways(cache, res) == cache \cup {res[2]}

\* One iteration of the loop over the results: true => insert the hash.
InsertResult(cache, res) == IF res[1] THEN cache \cup {res[2]} ELSE cache

\* The results of the jobs, as run_job returned them.
Results == { RunJobReturn(job_result[i] = "ok", files[i].hash) : i \in Jobs }

\* The stream is exhausted: the results are counted, the hashes of the
\* successes join the cache to be saved, the cache is written to the file
\* unless that cannot be created, and run returns.
Collect(created) ==
  /\ cl_pc = "run"
  /\ \A i \in Jobs : job_result[i] # "none"
  /\ after_cache' = after_cache \cup UNION { InsertResult({}, res) : res \in Results }
  /\ saved_cache' = IF created THEN Some(after_cache') ELSE None
  /\ client_result' = Some(IF \E i \in Jobs : job_result[i] = "failed"
                             THEN "Err" ELSE "Ok")
  /\ cl_pc' = "done"
  /\ UNCHANGED << serverVars, engineVars, clientRest, files, cmd_target,
                  before_cache, idx, jobs_by_target, skipped_jobs, reported, posts,
                  job_result >>

NextClient ==
  \/ Prepare
  \/ ReportSkipped
  \/ \E t \in ClientTargets, k \in 1..MaxFiles : StartJob(t, k)
  \/ \E i \in 1..MaxFiles, ok \in BOOLEAN : FinishJob(i, ok)
  \/ \E created \in BOOLEAN : Collect(created)

SpecClient == InitClient /\ [][NextClient]_vars

\* ============================================================ Runner::poll
MaxPolls == 2   \* reads of up-channel 0 in one run

\* What the firmware's defmt stream is made of, as the decoder sees it: a
\* complete frame (with the level its format string carries, if any), a
\* frame that does not decode, and a frame cut in two by the end of a read.
Token(kind, level, msg) == [kind |-> kind, level |-> level, msg |-> msg]
Frames == { Token("frame", Some("info"), "hello"),
            Token("frame", Some("fancy"), "odd"),
            Token("frame", None, "println") }
BadFrame == Token("bad", None, "")
HalfFrame == Token("half", Some("warn"), "split")
RestOfFrame == Token("rest", Some("warn"), "split")

\* frame.level() mapped to a log::Level.
FrameLevel(level) ==
  IF level = None THEN "Info"
  ELSE IF Unwrap(level) = "trace" THEN "Trace"
  ELSE IF Unwrap(level) = "debug" THEN "Debug"
  ELSE IF Unwrap(level) = "info" THEN "Info"
  ELSE IF Unwrap(level) = "warn" THEN "Warn"
  ELSE "Error"

\* The record poll logs for a decoded frame (frames without timestamp).
DeviceRecord(frame) ==
  [target |-> << "device" >>, level |-> FrameLevel(frame.level), msg |-> frame.msg]

\* defmt_stream.decode() on what the decoder holds: the next frame, Malformed
\* (the bad frame is dropped), or UnexpectedEof when what is left is not a
\* whole frame.
Decode(buf) ==
  IF buf = << >> THEN [res |-> "UnexpectedEof", frame |-> BadFrame, rest |-> buf]
  ELSE IF Head(buf).kind = "frame"
    THEN [res |-> "Ok", frame |-> Head(buf), rest |-> Tail(buf)]
  ELSE IF Head(buf).kind = "half"
    THEN IF Len(buf) = 1
           THEN [res |-> "UnexpectedEof", frame |-> BadFrame, rest |-> buf]
         ELSE IF buf[2].kind = "rest"
           THEN [res |-> "Ok", frame |-> buf[2], rest |-> Tail(Tail(buf))]
         ELSE [res |-> "Malformed", frame |-> BadFrame, rest |-> Tail(buf)]
  ELSE [res |-> "Malformed", frame |-> BadFrame, rest |-> Tail(buf)]

\* Mutant of Fatal: a malformed frame always ends the run.
FatalAlways(recover) == TRUE

\* match self.defmt_table.encoding().can_recover() { false => bail!(..), .. }
Fatal(recover) == ~recover

\* The loop of poll over decode(): the records it logs, how it ends, and what
\* the decoder is left with.
RECURSIVE Drain(_, _, _)
Drain(buf, recover, log) ==
  LET d == Decode(buf)
  IN IF d.res = "Ok" THEN Drain(d.rest, recover, Append(log, DeviceRecord(d.frame)))
     ELSE IF d.res = "UnexpectedEof" THEN [log |-> log, res |-> "Ok", buf |-> d.rest]
     ELSE IF Fatal(recover)
       THEN [log |-> log, res |-> "failed to decode defmt data", buf |-> d.rest]
     ELSE Drain(d.rest, recover, Append(log, WarnRun("failed to decode defmt data")))

\* What one read of up-channel 0 may return: nothing, or one or two frames'
\* worth of bytes, the last of which may be cut.
Chunks ==
  LET whole == Frames \cup {BadFrame}
      first == whole \cup {RestOfFrame}
      last == whole \cup {HalfFrame}
  IN {<< >>} \cup { << t >> : t \in first \cup last }
     \cup { << t, u >> : t \in first, u \in last }

\* The bytes of a read continue the stream: a cut frame is followed by its
\* rest, and nothing else is.
Continues(buf, chunk) ==
  chunk # << >> => ((buf # << >>) <=> (Head(chunk).kind = "rest"))

\* Runner::run is about to poll for the first time.
InitPoll ==
  /\ ServerInit /\ NewIdle /\ RunIdle /\ now = 0 /\ ProbeIdle /\ PollRestIdle
  /\ can_recover \in {Some(TRUE), Some(FALSE)}
  /\ reads = << >> /\ dec_buf = << >> /\ poll_log = << >> /\ poll_result = None

\* One call of poll: the read fails, or it returns chunk, which is handed to
\* the decoder and drained.
PollOnce(ok, chunk) ==
  /\ can_recover # None
  /\ poll_result = None
  /\ Len(reads) < MaxPolls
  /\ IF ~ok
       THEN /\ poll_result' = Some("probe error")
            /\ UNCHANGED << reads, dec_buf, poll_log >>
     ELSE /\ Continues(dec_buf, chunk)
          /\ reads' = Append(reads, chunk)
          /\ IF chunk = << >>
               THEN UNCHANGED << dec_buf, poll_log, poll_result >>
               ELSE LET d == Drain(dec_buf \o chunk, Unwrap(can_recover), << >>)
                    IN /\ poll_log' = poll_log \o d.log
                       /\ dec_buf' = d.buf
                       /\ poll_result' = IF d.res = "Ok" THEN None ELSE Some(d.res)
  /\ UNCHANGED << serverVars, engineVars, pollRest, can_recover >>

NextPoll == \E ok \in BOOLEAN, chunk \in Chunks : PollOnce(ok, chunk)

SpecPoll == InitPoll /\ [][NextPoll]_vars

\* ============================================ the panic hook and CatchUnwind
MaxPanics == 2   \* panics in one behaviour
MaxDepth == 2    \* CatchUnwind::poll calls nested on one thread

\* Mutant of HookAborts: the hook leaves every panic to unwind.
HookAbortsNever(catching) == FALSE

\* if !catching { .. abort() }
HookAborts(catching) == ~catching

\* The process starts with every thread's CATCHING_UNWIND at false.
InitUnwind == Init

\* The rest of the server's state, which neither the hook nor the wrapper
\* touches.
ServerRest == << default_timeout, max_timeout, req, pc, target_locks, timeout, job,
                 thread_job, CAPTURE, result, emitted, nlogs, resp >>

\* CatchUnwind::poll on thread w up to the inner poll: the flag is replaced
\* by true and its previous value kept in prev.
CatchUnwindEnter(w) ==
  /\ ~aborted
  /\ Len(unwind_stack[w]) < MaxDepth
  /\ unwind_stack' = [unwind_stack EXCEPT ![w] = Append(@, CATCHING_UNWIND[w])]
  /\ CATCHING_UNWIND' = [CATCHING_UNWIND EXCEPT ![w] = TRUE]
  /\ UNCHANGED << ServerRest, aborted, engineVars, unwindRest, panic_log >>

\* The inner poll returns Pending or Ready: catch_unwind yields Ok, the flag
\* is set back to prev and poll returns.
CatchUnwindReturn(w) ==
  /\ ~aborted
  /\ unwind_stack[w] # << >>
  /\ LET n == Len(unwind_stack[w])
     IN /\ CATCHING_UNWIND' = [CATCHING_UNWIND EXCEPT ![w] = unwind_stack[w][n]]
        /\ unwind_stack' = [unwind_stack EXCEPT ![w] = SubSeq(@, 1, n - 1)]
  /\ UNCHANGED << ServerRest, aborted, engineVars, unwindRest, panic_log >>

\* A panic on thread w.  The hook logs it, reads the thread's flag and aborts
\* unless it is set.  Otherwise the panic unwinds to the innermost
\* catch_unwind, if any: that one yields Err and the ? of CatchUnwind::poll
\* returns Ready(Err(..)) at once, before the line that sets the flag back.
Panic(w) ==
  /\ ~aborted
  /\ Len(panic_log) < MaxPanics
  /\ LET catching == CATCHING_UNWIND[w]
         n == Len(unwind_stack[w])
     IN /\ panic_log' = Append(panic_log, [thread |-> w, catching |-> catching,
                                            depth |-> n, rec |-> PanicRecord])
        /\ aborted' = HookAborts(catching)
        /\ unwind_stack' = [unwind_stack EXCEPT ![w] =
                              IF HookAborts(catching) \/ n = 0 THEN @
                              ELSE SubSeq(@, 1, n - 1)]
  /\ UNCHANGED << ServerRest, CATCHING_UNWIND, engineVars, unwindRest >>

NextUnwind ==
  \/ \E w \in Threads : CatchUnwindEnter(w)
  \/ \E w \in Threads : CatchUnwindReturn(w)
  \/ \E w \in Threads : Panic(w)

SpecUnwind == InitUnwind /\ [][NextUnwind]_vars

\* ================================================ logging outside a capture
\* info!("Auth method {} #{} succeeded.", ..) in check_auth, which runs on a
\* runtime thread.
AuthSucceededRecord ==
  [target |-> <<"teleprobe", "server">>, level |-> "Info",
   msg |-> "Auth method succeeded."]

\* Requests whose filters have run.
ArrivedReqs == {r \in Reqs : pc[r] # "idle"}

\* check_auth logs its record for a request it let through, on a runtime
\* thread.  with_capture is only called inside spawn_blocking, so the
\* thread's cell is the initial None.
HandlerLog ==
  /\ ~aborted
  /\ Len(runtime_logged) < Cardinality(ArrivedReqs)
  /\ runtime_capture' = LoggerLog(runtime_capture, AuthSucceededRecord)
  /\ runtime_logged' = Append(runtime_logged, AuthSucceededRecord)
  /\ UNCHANGED << serverVars, engineVars, captureRest >>

\* SpecCapture: authenticated requests for configured targets, an engine that
\* logs up to MaxLogs records and returns, and check_auth's own logging.
NextCapture ==
  \/ \E r \in Reqs, name \in ConfigTargets : Arrive(r, name, GoodHeader, None)
  \/ \E r \in Reqs : LockAcquired(r)
  \/ \E r \in Reqs : WorkerStart(r)
  \/ \E r \in Reqs, rec \in EngineRecords : EngineLog(r, rec)
  \/ \E r \in Reqs : EngineReturn(r, TRUE)
  \/ \E r \in Reqs : Respond(r)
  \/ HandlerLog

SpecCapture == Init /\ [][NextCapture]_vars

\* ===================================================== the context mutex
\* The routes of serve and the cx.lock() scopes a request of each goes
\* through.  "auth" is check_auth (the guard is a local of the function),
\* "lookup" the block that finds the target, "registry" the statement that
\* takes the target's lock out of target_locks, "timeout" the block that
\* computes the timeout, "targets" the statement of targets() that clones the
\* target list.  "lock_wait" is target_mutex.lock().await and "join_wait"
\* run_with_log_capture(..).await.
Routes == {"run", "list_targets", "home"}
Scopes == {"auth", "lookup", "registry", "timeout", "targets"}
Awaits == {"lock_wait", "join_wait"}

\* Where a request of the route starts: target_run and list_targets have
\* check_auth_filter, home has not.
FirstScope(route) == IF route = "home" THEN "targets" ELSE "auth"

\* Scopes that can end the request: check_auth rejects, the target is not
\* found.
CanReject(scope) == scope \in {"auth", "lookup"}

\* Where the handler goes when the scope ends.
AfterScope(route, scope, ok) ==
  CASE ~ok -> "done"
    [] scope = "auth" -> IF route = "run" THEN "lookup" ELSE "targets"
    [] scope = "lookup" -> "registry"
    [] scope = "registry" -> "lock_wait"
    [] scope = "timeout" -> "join_wait"
    [] scope = "targets" -> "done"

\* Mutant of GuardDropped: the guard of the registry statement is kept, as a
\* guard bound to a local of handle_run would be.
GuardDroppedNotRegistry(scope) == scope # "registry"

\* The guard cx.lock() returned is dropped where the scope ends: each one is
\* a temporary of a statement or a local of a block or function that ends
\* before the next await.
GuardDropped(scope) == scope \in Scopes

InitContext == Init

\* A request arrives and a runtime thread starts on its filters.
HandlerStart(h, route) ==
  /\ h_route[h] = "none"
  /\ h_route' = [h_route EXCEPT ![h] = route]
  /\ h_pc' = [h_pc EXCEPT ![h] = [at |-> FirstScope(route), held |-> FALSE]]
  /\ UNCHANGED << context_owner, target_guard >>
  /\ UNCHANGED << serverVars, engineVars, contextRest >>

\* cx.lock(): the thread gets the mutex once it is free.
ContextLock(h) ==
  /\ h_pc[h].at \in Scopes /\ ~h_pc[h].held
  /\ context_owner = 0
  /\ context_owner' = h
  /\ h_pc' = [h_pc EXCEPT ![h].held = TRUE]
  /\ UNCHANGED << h_route, target_guard >>
  /\ UNCHANGED << serverVars, engineVars, contextRest >>

\* The scope ends, with or without a rejection.
ScopeEnd(h, ok) ==
  /\ h_pc[h].at \in Scopes /\ h_pc[h].held
  /\ ok \/ CanReject(h_pc[h].at)
  /\ LET dropped == GuardDropped(h_pc[h].at)
     IN /\ context_owner' = IF dropped THEN 0 ELSE context_owner
        /\ h_pc' = [h_pc EXCEPT ![h] = [at |-> AfterScope(h_route[h], h_pc[h].at, ok),
                                         held |-> ~dropped]]
  /\ UNCHANGED << h_route, target_guard >>
  /\ UNCHANGED << serverVars, engineVars, contextRest >>

\* target_mutex.lock().await completes.
TargetLocked(h) ==
  /\ h_pc[h].at = "lock_wait"
  /\ target_guard = 0
  /\ target_guard' = h
  /\ h_pc' = [h_pc EXCEPT ![h].at = "timeout"]
  /\ UNCHANGED << context_owner, h_route >>
  /\ UNCHANGED << serverVars, engineVars, contextRest >>

\* run_with_log_capture(..).await completes and handle_run returns, dropping
\* _target_guard.
RunReturns(h) ==
  /\ h_pc[h].at = "join_wait"
  /\ target_guard' = 0
  /\ h_pc' = [h_pc EXCEPT ![h].at = "done"]
  /\ UNCHANGED << context_owner, h_route >>
  /\ UNCHANGED << serverVars, engineVars, contextRest >>

NextContext ==
  \/ \E h \in Handlers, route \in Routes : HandlerStart(h, route)
  \/ \E h \in Handlers : ContextLock(h)
  \/ \E h \in Handlers, ok \in BOOLEAN : ScopeEnd(h, ok)
  \/ \E h \in Handlers : TargetLocked(h)
  \/ \E h \in Handlers : RunReturns(h)

SpecContext == InitContext /\ [][NextContext]_vars

\* ------------------------------------------------------------------- claims
Arrived(r) == req[r] # None
NameOf(r) == Unwrap(req[r]).name
InEngine(r) == job[r] = "running"
Answered(r) == resp[r] # None

\* The header carries, after "Bearer ", a token of a configured auth method.
Authenticated(r) ==
  LET hdr == Unwrap(req[r]).hdr
  IN /\ hdr.present
     /\ hdr.prefix = "Bearer "
     /\ hdr.rest \in {ConfigAuths[i].token : i \in 1..Len(ConfigAuths)}

\* The mutex registered for the name r asked for, if any.
HoldsOrAwaitsLock(r) ==
  \E k \in DOMAIN target_locks :
    \/ target_locks[k].holder = r
    \/ \E i \in 1..Len(target_locks[k].waiters) : target_locks[k].waiters[i] = r

\* C1: two run requests that name the same target are never inside the
\* engine (between entry into and return from run_firmware_on_device) at the
\* same time.
C1_NoEngineOverlap ==
  \A r1, r2 \in Reqs :
    (r1 # r2 /\ InEngine(r1) /\ InEngine(r2)) => NameOf(r1) # NameOf(r2)

\* C2: while the engine invocation of a request whose handler future was
\* dropped is still executing, no other request for the same target is inside
\* the engine.
C2_DroppedRunStaysExclusive ==
  \A r \in Reqs :
    (pc[r] = "dropped" /\ InEngine(r)) =>
      \A q \in Reqs \ {r} : (Arrived(q) /\ NameOf(q) = NameOf(r)) => ~InEngine(q)

\* C3: a request waits for a target lock only behind a live request for the
\* same target, whatever runs are in progress on other targets, and a spawned
\* engine job always finds a pool thread.
C3_OnlySameTargetBlocks ==
  \A r \in Reqs :
    /\ (pc[r] = "lock_wait" /\ target_locks[KeyOf(r)].holder # r) =>
         LET h == target_locks[KeyOf(r)].holder
         IN /\ h \in Reqs \ {r}
            /\ pc[h] \in {"lock_wait", "join_wait"}
            /\ NameOf(h) = NameOf(r)
    /\ job[r] = "spawned" => \E w \in Threads : thread_job[w] = 0

\* Two engine invocations for different targets are in progress at once, both
\* under their handlers' guards.
C3_Witness ==
  \E r1, r2 \in Reqs :
    /\ InEngine(r1) /\ InEngine(r2)
    /\ pc[r1] = "join_wait" /\ pc[r2] = "join_wait"
    /\ NameOf(r1) # NameOf(r2)

\* C4: a panic inside the engine does not terminate the process.
C4_EnginePanicDoesNotAbort ==
  \A r \in Reqs : job[r] = "panicked" => ~aborted

\* The lines a run's response must carry: one per emitted record that passes
\* the capture filter.
PassingRecords(r) == SelectSeq(emitted[r], CaptureFilterMatches)

\* C7: the response to an authenticated run request on a known target whose
\* engine returned has status 200 exactly when the engine returned success,
\* 400 exactly when it returned failure, and the run's captured log as body.
C7_StatusFollowsEngine ==
  \A r \in Reqs :
    (Answered(r) /\ job[r] = "finished") =>
      LET rs == Unwrap(resp[r])
          ok == Unwrap(result[r]).ok
      IN /\ rs.status = 200 <=> ok
         /\ rs.status = 400 <=> ~ok
         /\ Len(rs.body) = Len(PassingRecords(r))
         /\ \A i \in 1..Len(rs.body) : rs.body[i][3] = PassingRecords(r)[i].msg

\* One run answered 200 and another answered 400, both with log lines.
C7_Witness ==
  \E r1, r2 \in Reqs :
    /\ Answered(r1) /\ Unwrap(resp[r1]).status = 200 /\ Len(Unwrap(resp[r1]).body) > 0
    /\ Answered(r2) /\ Unwrap(resp[r2]).status = 400 /\ Len(Unwrap(resp[r2]).body) > 1

\* C8 as stated: every run request for a name that is not configured is
\* answered 404 "Target not found: <name>", starts no engine job and creates
\* no registry entry.
C8_UnknownTargetIs404 ==
  \A r \in Reqs :
    (Arrived(r) /\ NameOf(r) \notin ConfigTargets) =>
      /\ resp[r] = Some([status |-> 404, body |-> <<"Target not found: ", NameOf(r)>>])
      /\ job[r] = "none"
      /\ NameOf(r) \notin DOMAIN target_locks

\* C8 amended: every authenticated run request for a name that is not
\* configured is answered 404 "Target not found: <name>", starts no engine job
\* and creates no registry entry.
C8_AuthenticatedUnknownTargetIs404 ==
  \A r \in Reqs :
    (Arrived(r) /\ Authenticated(r) /\ NameOf(r) \notin ConfigTargets) =>
      /\ resp[r] = Some([status |-> 404, body |-> <<"Target not found: ", NameOf(r)>>])
      /\ job[r] = "none"
      /\ ~HoldsOrAwaitsLock(r)
      /\ NameOf(r) \notin DOMAIN target_locks

\* An authenticated request for an unknown name was answered while a run for
\* a configured target had created its registry entry.
C8_Witness ==
  /\ \E r \in Reqs :
       Arrived(r) /\ Authenticated(r) /\ NameOf(r) \notin ConfigTargets /\ Answered(r)
  /\ DOMAIN target_locks # {}

\* C9: a run request whose Authorization header is missing, malformed or
\* carries a token no auth method accepts is answered 401, takes no target
\* lock and starts no engine job.
C9_BadAuthIs401 ==
  \A r \in Reqs :
    (Arrived(r) /\ ~Authenticated(r)) =>
      /\ Answered(r) /\ Unwrap(resp[r]).status = 401
      /\ ~HoldsOrAwaitsLock(r)
      /\ job[r] = "none"

\* Positions of emitted[r] whose record passes the capture filter.
PassingAt(r) == {i \in 1..Len(emitted[r]) : CaptureFilterMatches(emitted[r][i])}

\* The number of passing records among the first i emitted ones.
Rank(r, i) == Cardinality({j \in PassingAt(r) : j <= i})

\* C10: every record emitted on the worker during a run that passes the
\* capture filter is in the response body as the line "LEVEL - message", the
\* body has no other line, and the lines are in emit order.
C10_LogsCompleteInOrder ==
  \A r \in Reqs :
    (Answered(r) /\ job[r] = "finished") =>
      LET body == Unwrap(resp[r]).body
      IN /\ Len(body) = Cardinality(PassingAt(r))
         /\ \A i \in PassingAt(r) :
              body[Rank(r, i)] =
                <<LevelToString(emitted[r][i].level), " - ", emitted[r][i].msg>>

\* A response whose run emitted a record the filter drops and at least two
\* different records it passes.
C10_Witness ==
  \E r \in Reqs :
    /\ Answered(r) /\ job[r] = "finished"
    /\ Len(emitted[r]) > Cardinality(PassingAt(r))
    /\ Len(Unwrap(resp[r]).body) >= 2
    /\ Unwrap(resp[r]).body[1] # Unwrap(resp[r]).body[2]

\* The timeout the client asked for, or the configured default.
Requested(r) ==
  IF Unwrap(req[r]).timeout = None THEN default_timeout
  ELSE Unwrap(req[r]).timeout[1]

\* C5: the timeout handed to the engine is the client's timeout if present
\* and else default_timeout, clamped to max_timeout.
C5_TimeoutClamping ==
  \A r \in Reqs :
    timeout[r] # None =>
      /\ Requested(r) <= max_timeout => Unwrap(timeout[r]) = Requested(r)
      /\ Requested(r) > max_timeout => Unwrap(timeout[r]) = max_timeout

\* A client timeout above max_timeout was clamped.
C5_Witness ==
  \E r \in Reqs :
    /\ timeout[r] # None
    /\ Unwrap(req[r]).timeout # None
    /\ Unwrap(req[r]).timeout[1] > max_timeout
    /\ Unwrap(timeout[r]) = max_timeout

\* C6 as stated: without a timeout parameter the effective timeout is
\* default_timeout, whatever default_timeout and max_timeout are.
C6_NoTimeoutGivesDefault ==
  \A r \in Reqs :
    (timeout[r] # None /\ Unwrap(req[r]).timeout = None) =>
      Unwrap(timeout[r]) = default_timeout

\* C6 amended: without a timeout parameter the effective timeout is
\* default_timeout when default_timeout <= max_timeout, and max_timeout
\* otherwise.
C6_NoTimeoutGivesClampedDefault ==
  \A r \in Reqs :
    (timeout[r] # None /\ Unwrap(req[r]).timeout = None) =>
      /\ default_timeout <= max_timeout => Unwrap(timeout[r]) = default_timeout
      /\ default_timeout > max_timeout => Unwrap(timeout[r]) = max_timeout

\* A request without timeout ran under a default_timeout below max_timeout.
C6_Witness ==
  \E r \in Reqs :
    /\ timeout[r] # None
    /\ Unwrap(req[r]).timeout = None
    /\ 0 < default_timeout /\ default_timeout < max_timeout
    /\ Unwrap(timeout[r]) = default_timeout

\* ------------------------------------------------------ claims: Runner::run
\* What the capture of logutil keeps of the records the runner logged.
RECURSIVE CaptureAll(_, _)
CaptureAll(cap, recs) ==
  IF recs = << >> THEN cap ELSE CaptureAll(LoggerLog(cap, Head(recs)), Tail(recs))

CapturedRun == Unwrap(CaptureAll(Some(<< >>), rlog))
InCapture(msg) == \E i \in 1..Len(CapturedRun) : CapturedRun[i].message = msg

\* The records of a complete traceback are in the captured log.
DumpInCapture ==
  /\ \A i \in 1..Len(RegisterRows) : InCapture(RegisterRows[i].msg)
  /\ InCapture("Stack:") /\ InCapture("Backtrace:") /\ InCapture("Frame 0:")

\* The poll loop was left through its break.
LoopExited == rpc = "finish" \/ run_result \in {Some("Ok"), Some("Firmware crashed")}

\* C11: at the moment the poll loop ends normally (the second of two
\* consecutive halted samples), no byte the firmware wrote is left unread in
\* RTT up-channel 0, however much was buffered when the core halted.
C11_NoLogLost ==
  [][(rpc = "observe" /\ rpc' = "finish") => up_buffer' = 0]_vars

\* C12: the poll loop ends normally only when the last two samples of the
\* halted state, taken in consecutive iterations, were both "halted".
C12_TwoConsecutiveHalts ==
  LoopExited => /\ Len(obs) >= 2
                /\ obs[Len(obs)]
                /\ obs[Len(obs) - 1]

\* A run that saw halted, not halted, halted, halted and only then left the loop.
C12_Witness == rpc = "finish" /\ obs = << TRUE, FALSE, TRUE, TRUE >>

\* C13: once the deadline check has fired the run has ended, it did not
\* return Ok, and "Deadline exceeded!" is in the captured log; and when no
\* probe operation of the dump failed, the core is halted, the complete
\* register/stack/backtrace dump is in the captured log whatever the
\* exception number, and the error returned is "Deadline exceeded".
C13_DeadlineEnforced ==
  fired =>
    /\ rpc = "done"
    /\ run_result # None
    /\ run_result # Some("Ok")
    /\ InCapture("Deadline exceeded!")
    /\ (dumped # None /\ Unwrap(dumped).fail \notin {"core", "halt"} => core_halted)
    /\ (dumped # None /\ Unwrap(dumped).fail = "none" =>
          /\ Unwrap(dumped).force
          /\ DumpInCapture
          /\ run_result = Some("Deadline exceeded"))

\* The deadline fired on a core that was in no exception, and the dump went through.
C13_Witness ==
  /\ fired
  /\ dumped = Some([force |-> TRUE, xpsr |-> 16777216, fail |-> "none"])
  /\ run_result = Some("Deadline exceeded")

\* C14: a run that left the poll loop normally and then read an XPSR whose
\* low byte is 3 does not return Ok; and when no probe operation of the dump
\* failed, the captured log holds the rows R0:, R4:, R8:, R12:, XPSR: and
\* "Hard Fault!", and the error returned is "Firmware crashed".
C14_HardFaultReported ==
  ( /\ dumped # None
    /\ ~Unwrap(dumped).force
    /\ Unwrap(dumped).fail \notin {"halt", "xpsr"}
    /\ Unwrap(dumped).xpsr % 256 = 3 ) =>
    /\ run_result # None
    /\ run_result # Some("Ok")
    /\ (Unwrap(dumped).fail = "none" =>
          /\ \A i \in 1..Len(RegisterRows) : InCapture(RegisterRows[i].msg)
          /\ InCapture("Hard Fault!")
          /\ run_result = Some("Firmware crashed"))

\* A HardFault with flag bits set above the exception number, dumped in full.
C14_Witness ==
  /\ dumped = Some([force |-> FALSE, xpsr |-> 1627389955, fail |-> "none"])
  /\ run_result = Some("Firmware crashed")
  /\ InCapture("Hard Fault!")

\* ------------------------------------------------------ claims: Runner::new
HasSymbol(name) == \E i \in 1..Len(elf.symbols) : elf.symbols[i].name = name
AddrOf(name) ==
  elf.symbols[CHOOSE i \in 1..Len(elf.symbols) : elf.symbols[i].name = name].address
NewFailed == new_result # None /\ ~Unwrap(new_result).ok
Issued(name) == \E i \in 1..Len(ops) : ops[i].name = name

\* The attach attempts made so far, in order.
Attaches == SelectSeq(ops, LAMBDA o : o.name = "attach_region")

\* C15: setup_logging_channel attaches at most 11 times, each time at the
\* address of _SEGGER_RTT; every attempt but the last returned
\* ControlBlockNotFound; after another error or a success the function has
\* returned, after the 11th ControlBlockNotFound it has returned that error,
\* and after an earlier ControlBlockNotFound it goes on.
C15_AttachRetry ==
  LET A == Attaches
      n == Len(Attaches)
  IN /\ n <= 11
     /\ \A i \in 1..n : A[i].addr = AddrOf("_SEGGER_RTT")
     /\ \A i \in 1..n : i < n => A[i].res = "ControlBlockNotFound"
     /\ (n > 0 /\ A[n].res = "Other") => new_result = Some(NewErr("Other"))
     /\ (n > 0 /\ A[n].res = "Ok") => new_result # None
     /\ (n = 11 /\ A[n].res = "ControlBlockNotFound") =>
          new_result = Some(NewErr("ControlBlockNotFound"))
     /\ (n > 0 /\ n < 11 /\ A[n].res = "ControlBlockNotFound") => new_result = None

\* Eleven attempts, all answered ControlBlockNotFound.
C15_Witness ==
  /\ Len(Attaches) = 11
  /\ new_result = Some(NewErr("ControlBlockNotFound"))

\* C16: in a run with do_flash set, every run() issued to core 0 comes after
\* a load_image and a later commit that both returned Ok.
C16_FlashBeforeRelease ==
  opts.do_flash =>
    \A i \in 1..Len(ops) :
      ops[i].name = "run" =>
        \E j \in 1..i, k \in 1..i :
          /\ j < k /\ k < i
          /\ ops[j].name = "load_image" /\ ops[j].res = "Ok"
          /\ ops[k].name = "commit" /\ ops[k].res = "Ok"

\* A flashing run that released the core.
C16_Witness == opts.do_flash /\ Issued("run")

\* C17: with an ELF that has no _SEGGER_RTT symbol no run() is issued, and
\* Runner::new does not return Ok.
C17_RttSymbolRequired ==
  ~HasSymbol("_SEGGER_RTT") =>
    /\ ~Issued("run")
    /\ new_result # None => ~Unwrap(new_result).ok

\* An ELF with main but without _SEGGER_RTT, refused after the flashing.
C17_Witness ==
  /\ ~HasSymbol("_SEGGER_RTT")
  /\ HasSymbol("main")
  /\ Issued("commit")
  /\ new_result = Some(NewErr("RTT is missing"))

\* The write of FLAG (2) at rtt_addr + OFFSET (44).
IsBlockIfFull(i) ==
  /\ HasSymbol("_SEGGER_RTT")
  /\ ops[i].name = "write_word_32"
  /\ ops[i].addr = AddrOf("_SEGGER_RTT") + 44
  /\ ops[i].val = 2

\* C18: without a main symbol the run fails and the flag is never written;
\* in flash mode every write of BLOCK_IF_FULL comes after a hardware
\* breakpoint at main, a run() and a wait_for_core_halted that returned Ok,
\* in this order; after a failed wait the run has failed and the flag is not
\* written.
C18_HaltAtMainBeforeBlockIfFull ==
  /\ ~HasSymbol("main") =>
       /\ \A i \in 1..Len(ops) : ~IsBlockIfFull(i)
       /\ new_result # None => ~Unwrap(new_result).ok
  /\ chip.region = "Nvm" =>
       \A i \in 1..Len(ops) :
         IsBlockIfFull(i) =>
           \E b \in 1..i, r \in 1..i, w \in 1..i :
             /\ b < r /\ r < w /\ w < i
             /\ ops[b].name = "set_hw_breakpoint"
             /\ ops[b].addr = AddrOf("main") - (AddrOf("main") % 2)
             /\ ops[r].name = "run"
             /\ ops[w].name = "wait_for_core_halted" /\ ops[w].res = "Ok"
  /\ \A w \in 1..Len(ops) :
       (ops[w].name = "wait_for_core_halted" /\ ops[w].res = "Err") =>
         /\ NewFailed
         /\ \A i \in 1..Len(ops) : ~IsBlockIfFull(i)

\* A flash-mode run that wrote the flag.
C18_Witness ==
  /\ chip.region = "Nvm"
  /\ \E i \in 1..Len(ops) : IsBlockIfFull(i)

\* The non-empty .vector_table sections of the ELF.
VectorTables ==
  { elf.sections[i] : i \in { j \in 1..Len(elf.sections) :
      elf.sections[j].name = ".vector_table" /\ elf.sections[j].size # 0 } }

\* Runner::new has gone past the ELF analysis: it has touched the target.
PastAnalysis == ops # << >>

\* C19 as stated: past the ELF analysis the vector table's location, its
\* reset word and its initial_sp word are each a multiple of 4.
C19_VectorTableAligned ==
  PastAnalysis =>
    \A v \in VectorTables :
      /\ v.start % 4 = 0
      /\ v.data[2] % 4 = 0
      /\ v.data[1] % 4 = 0

\* C19 amended: past the ELF analysis the vector table's location and size
\* are multiples of 4, and an ELF whose vector table is misplaced is refused
\* with the alignment error before any operation on the target.
C19_VectorTableLocationAligned ==
  /\ PastAnalysis =>
       \A v \in VectorTables : v.start % 4 = 0 /\ v.size % 4 = 0
  /\ (\E v \in VectorTables : v.start % 4 # 0) =>
       /\ ops = << >>
       /\ new_result # None => new_result = Some(NewErr("section is not 4-byte aligned"))

\* A Runner constructed from an ELF whose reset word carries the Thumb bit
\* and whose initial_sp is no multiple of 4.
C19_Witness ==
  /\ new_result = Some(NewOk)
  /\ \E v \in VectorTables : v.data[2] % 4 # 0 /\ v.data[1] % 4 # 0

\* ---------------------------------------------------- claims: probe::connect
SettleStart == Unwrap(end) - probe_opts.max_settle_time_millis
SettleBailed ==
  connect_result = Some(ConnectErr("Probe did not appear after the max settle time."))

\* What holds of the settle loop in every state.
SettleSafe ==
  LET n == Len(attempts)
  IN /\ \A i \in 1..n :
          attempts[i].at >= (IF i = 1 THEN SettleStart ELSE attempts[i - 1].at) + 250
     /\ \A i \in 1..n : i < n => attempts[i].res # "Ok"
     /\ (n > 0 /\ attempts[n].res = "Ok") => cpc \in {"opened", "done"} /\ ~SettleBailed
     /\ (n > 0 /\ attempts[n].res # "Ok" /\ ~SettleBailed) =>
          cpc = "loop" /\ connect_result = None
     /\ SettleBailed =>
          /\ now - SettleStart > probe_opts.max_settle_time_millis
          /\ \A i \in 1..n : attempts[i].res # "Ok"
     /\ (cpc \in {"opened", "done"} /\ end # None) =>
          SettleBailed \/ (n > 0 /\ attempts[n].res = "Ok")
     /\ n <= (probe_opts.max_settle_time_millis \div 250) + 1

\* The loop has been left.
SettleLeft == cpc \in {"opened", "done"}

\* C20: the settle loop sleeps 250 ms before each open_probe, stops at the
\* first one that returns Ok, goes on after a failed one, bails with "Probe
\* did not appear after the max settle time." only when more than
\* max_settle_time_millis have passed since it began, and always ends in one
\* of the two ways.
C20_SettleLoop == [](end # None => SettleSafe) /\ <>SettleLeft

\* The loop gave up after two failed attempts.
C20_Witness == SettleBailed /\ Len(attempts) >= 2

\* ------------------------------------------ claims: run_firmware_on_device
DeviceReturned == device_result # None

Cycling == {r \in Reqs : pw[r] = "disabled"}

\* C22: USB power cycles are serialized process-wide: at any instant at most
\* one disable/enable sequence is in progress in the whole process, also when
\* runs for different targets execute concurrently on different workers.
C22_PowerCyclesSerialized == Cardinality(Cycling) <= 1

\* ------------------------------------------- claims: run mode of Runner::new
\* Operations only the RAM boot issues, and only the flash boot.
RamMode == Issued("write_core_reg PC")
FlashMode == Issued("write_word_32 0xdeadc0de")
NewPanicked == new_result = Some(NewErr("panic"))

\* C23: the run mode is RAM when the vector table lies in a Ram or Generic
\* region of the memory map and flash when it lies in an Nvm region; when it
\* lies in no region Runner::new fails with an error, as it does for any
\* other engine error, and does not panic.
C23_RunModeClassification ==
  /\ chip.region \in {"Ram", "Generic"} =>
       ~FlashMode /\ (new_result = Some(NewOk) => RamMode)
  /\ chip.region = "Nvm" =>
       ~RamMode /\ (new_result = Some(NewOk) => FlashMode)
  /\ chip.region = "none" =>
       /\ ~RamMode /\ ~FlashMode
       /\ new_result # Some(NewOk)
       /\ ~NewPanicked

\* ---------------------------------------------------- claims: ProbeSpecifier
LowerHex == { "0", "1", "2", "3", "4", "5", "6", "7", "8", "9",
              "a", "b", "c", "d", "e", "f" }

\* A canonical hex field: one to four lowercase hex digits, without a
\* leading zero unless the field is "0".
CanonicalField(f) ==
  /\ Len(f) \in 1..4
  /\ \A i \in 1..Len(f) : f[i] \in LowerHex
  /\ (Len(f) > 1 => f[1] # "0")

Colons(s) == Cardinality({ i \in 1..Len(s) : s[i] = ":" })
Colon(s, k) ==
  CHOOSE i \in 1..Len(s) :
    s[i] = ":" /\ Cardinality({ j \in 1..(i - 1) : s[j] = ":" }) = k - 1

\* A canonical selector string: a serial without colon, or vid:pid, or
\* vid:pid:serial with canonical hex fields.
Canonical(s) ==
  \/ Colons(s) = 0
  \/ /\ Colons(s) = 2
     /\ CanonicalField(SubSeq(s, 1, Colon(s, 1) - 1))
     /\ CanonicalField(SubSeq(s, Colon(s, 1) + 1, Colon(s, 2) - 1))
  \/ /\ Colons(s) = 1
     /\ CanonicalField(SubSeq(s, 1, Colon(s, 1) - 1))
     /\ CanonicalField(SubSeq(s, Colon(s, 1) + 1, Len(s)))

\* C24: a canonical selector string of one of the three shapes parses, and
\* formatting the parsed value gives the same string back.
C24_SelectorRoundTrip ==
  (sel_in # None /\ Canonical(Unwrap(sel_in))) =>
    /\ sel_parsed # None => Unwrap(sel_parsed).ok
    /\ sel_out # None => sel_out = sel_in

\* "cafe:1234:SN0001" went through from_str and serialize.
C24_Witness ==
  /\ sel_in = Some(<< "c", "a", "f", "e", ":", "1", "2", "3", "4", ":",
                      "S", "N", "0", "0", "0", "1" >>)
  /\ sel_out = sel_in

\* --------------------------------------------------------- claims: from_elf
\* C25: from_elf succeeds for every parseable ELF whatever its custom
\* sections hold: a missing section gives None for its field, a
\* .teleprobe.timeout whose length is not 4 gives timeout = None, a
\* .teleprobe.target that is not valid UTF-8 gives target = None, and none of
\* these is an error.
C25_MetadataRobust ==
  (meta_result # None /\ Unwrap(meta_elf).parses) =>
    LET e == Unwrap(meta_elf)
        m == Unwrap(meta_result)
    IN /\ m.ok
       /\ e.target = None => m.target = None
       /\ e.timeout = None => m.timeout = None
       /\ (e.timeout # None /\ Len(Unwrap(e.timeout).data) # 4) => m.timeout = None
       /\ (e.target # None /\ ~FromUtf8Ok(Unwrap(e.target).data)) => m.target = None

\* ------------------------------------------------------ claims: client::run
FileIds == 1..Len(files)
Cached(i) == files[i].hash \in before_cache
ClientReturned == client_result # None
\* run left its first loop through a failed ?.
PrepareFailed == ClientReturned /\ idx <= Len(files)

\* C26, as stated: a file whose hash is in the loaded cache is never POSTed
\* and is reported SKIPPED, and a file whose hash is absent is POSTed exactly
\* once, in every client run with --cache.
C26_CacheSkip ==
  /\ \A i \in FileIds : Cached(i) => posts[i] = 0
  /\ ClientReturned =>
       \A i \in FileIds : IF Cached(i) THEN i \in reported ELSE posts[i] = 1

\* C26, amended: a file whose hash is in the loaded cache is never POSTed
\* and a file whose hash is absent is POSTed at most once; in a run that
\* gets past its first loop every cached file is reported SKIPPED and every
\* other file has been POSTed exactly once when the run returns; a run in
\* which a file cannot be read, is no ELF or has no target returns before
\* anything is POSTed or reported.
C26_CacheSkipPastPreparation ==
  /\ \A i \in FileIds : IF Cached(i) THEN posts[i] = 0 ELSE posts[i] <= 1
  /\ (ClientReturned /\ ~PrepareFailed) =>
       \A i \in FileIds : IF Cached(i) THEN i \in reported ELSE posts[i] = 1
  /\ PrepareFailed =>
       /\ reported = {}
       /\ \A i \in FileIds : posts[i] = 0

\* A run of three files returned: one was in the cache and skipped, the two
\* others were POSTed once each.
C26_Witness ==
  /\ ClientReturned /\ ~PrepareFailed
  /\ Len(files) = 3
  /\ Cardinality(reported) = 1
  /\ Cardinality({ i \in FileIds : posts[i] = 1 }) = 2

\* ------------------------------------------------- claims: order of the runs
\* Requests arrive in the order of their numbers, and a FIFO mutex grants
\* the lock in the order of the lock() calls: of two requests for one target
\* that both got the lock, the one with the smaller number started waiting
\* first and acquired first.
Spawned(r) == job[r] # "none"
Begun(r) == job[r] \in {"running", "finished", "panicked"}
Completed(r) == job[r] \in {"finished", "panicked"}
SameTarget(q, r) == Spawned(q) /\ Spawned(r) /\ KeyOf(q) = KeyOf(r)

\* C27: for requests to the same target, engine invocations begin in the
\* order in which the requests started waiting on the target lock, and they
\* complete in the order in which they acquired the lock.
C27_ArrivalOrder ==
  \A q, r \in Reqs :
    (q < r /\ SameTarget(q, r)) =>
      /\ Begun(r) => Begun(q)
      /\ Completed(r) => Completed(q)

\* --------------------------------------------------- target lock registry
\* Request r passed authentication and named a configured target.
Accepted(r) == Arrived(r) /\ Authenticated(r) /\ NameOf(r) \in ConfigTargets

\* Request r's handler holds the guard of mutex m or is queued on it.
UsesMutex(m, r) ==
  \/ m.holder = r
  \/ \E i \in 1..Len(m.waiters) : m.waiters[i] = r

\* The handler of r is suspended between target_mutex.lock() and its return.
Live(r) == pc[r] \in {"lock_wait", "join_wait"}

\* The keys the accepted requests so far have asked for.
RequestedKeys == {KeyOf(r) : r \in {q \in Reqs : Accepted(q)}}

\* C28: the registry holds a mutex for exactly the target names accepted
\* requests have asked for (created on the first request, not before); no
\* step removes an entry; and no step replaces one: every request that held or
\* awaited a name's mutex and is still in its handler holds or awaits the
\* mutex then registered under that name, so a later or concurrent request
\* for the name obtained the same mutex as the ones before it.
C28_RegistryStep ==
  /\ DOMAIN target_locks \subseteq DOMAIN target_locks'
  /\ DOMAIN target_locks' = RequestedKeys'
  /\ \A k \in DOMAIN target_locks : \A r \in Reqs :
       (UsesMutex(target_locks[k], r) /\ Live(r)') => UsesMutex(target_locks'[k], r)
  /\ \A r \in Reqs : Live(r)' => UsesMutex(target_locks'[KeyOf(r)'], r)

C28_RegistryCreateOrGet == [][C28_RegistryStep]_vars

\* A second request for a name arrived while the first held the name's mutex,
\* and queued on that mutex; the registry has the one entry.
C28_Witness ==
  \E q, r \in Reqs :
    /\ q < r /\ Accepted(q) /\ Accepted(r) /\ KeyOf(q) = KeyOf(r)
    /\ pc[q] = "join_wait" /\ pc[r] = "lock_wait"
    /\ target_locks[KeyOf(q)] = [holder |-> q, waiters |-> << r >>]
    /\ DOMAIN target_locks = {KeyOf(q)}

\* ------------------------------------------------------- every run returns
\* C29: every engine invocation the server started eventually returns, and
\* every request that holds or awaits a target lock is eventually answered
\* (unless its client went away first).
C29_EveryRunAnswered ==
  \A r \in Reqs :
    /\ InEngine(r) ~> (job[r] = "finished")
    /\ Live(r) ~> (Answered(r) \/ pc[r] = "dropped")

\* -------------------------------------------------- exception classification
\* C30: when dump_state ran with no probe operation failing and read an XPSR
\* whose low byte is n: the dump after the loop makes the run return "Firmware
\* crashed" exactly when n = 3 and Ok otherwise; for n = 0 the captured log
\* holds the traceback exactly when the dump was forced, and neither "Hard
\* Fault!" nor an exception number; for n = 3 it holds the traceback and "Hard
\* Fault!"; for any other n it holds the traceback and "Exception n" and not
\* "Hard Fault!".
C30_ExceptionClassification ==
  (dumped # None /\ Unwrap(dumped).fail = "none") =>
    LET d == Unwrap(dumped)
        n == d.xpsr % 256
        numbered == \E i \in 1..Len(CapturedRun) :
                      CapturedRun[i].message = "Exception " \o ToString(n)
    IN /\ ~d.force => run_result = Some(IF n = 3 THEN "Firmware crashed" ELSE "Ok")
       /\ n = 0 => /\ DumpInCapture <=> d.force
                   /\ ~InCapture("Hard Fault!")
                   /\ ~numbered
       /\ n = 3 => /\ DumpInCapture
                   /\ InCapture("Hard Fault!")
                   /\ ~numbered
       /\ n \notin {0, 3} => /\ DumpInCapture
                             /\ numbered
                             /\ ~InCapture("Hard Fault!")

\* A run left its loop while the core was in SVCall (exception 11): the dump
\* logged the traceback and the number, and the run returned Ok.
C30_Witness ==
  /\ dumped = Some([force |-> FALSE, xpsr |-> 16777227, fail |-> "none"])
  /\ run_result = Some("Ok")
  /\ DumpInCapture
  /\ InCapture("Exception 11")

\* ------------------------------------------- claims: Runner::new, the boot
\* core.available_breakpoint_units() returned Ok.
UnitsReported ==
  \E i \in 1..Len(ops) : ops[i].name = "available_breakpoint_units" /\ ops[i].res = "Ok"

NoUnitsError == NewErr("RTT not supported on device without HW breakpoints")

\* C31: once the core has reported zero breakpoint units, Runner::new returns
\* the error "RTT not supported on device without HW breakpoints" as its next
\* step, and no run() and no RTT attach is issued in that run.
C31_NoBreakpointUnitsFails ==
  (UnitsReported /\ chip.units = 0) =>
    /\ ~Issued("run")
    /\ ~Issued("attach_region")
    /\ new_result \in {None, Some(NoUnitsError)}
    /\ new_result = None => NewPlan(elf, opts, chip)[new_pc].kind = "bail"

\* A flash-mode run on a core without breakpoint units was flashed and then
\* refused.
C31_Witness ==
  /\ UnitsReported /\ chip.units = 0 /\ chip.region = "Nvm"
  /\ Issued("commit")
  /\ new_result = Some(NoUnitsError)

\* The vector table of the ELF (the ELF files drawn hold at most one).
TheVectorTable == CHOOSE v \in VectorTables : TRUE

\* The vector table lies in a Ram or Generic region.
InRamRegion == chip.region \in {"Ram", "Generic"}

\* C32 as stated: a run whose vector table lies in a Ram or Generic region
\* issues no load_image and no commit.
C32_RamModeNoLoader ==
  InRamRegion => ~Issued("load_image") /\ ~Issued("commit")

\* C32 amended: a run whose vector table lies in a Ram or Generic region
\* executes the loader's load_image and commit exactly as a flash-mode run
\* does, that is when do_flash is set and before the core is released; it
\* never uses the flash boot (no 0xdeadc0de write, no hardware breakpoint, no
\* wait for a halt at main); and it releases the core with a single run(),
\* issued after PC, SP and VTOR were written, in this order, with the reset
\* word, the initial_sp word and the location of the vector table.
C32_RamModeLaunch ==
  InRamRegion =>
    /\ (Issued("load_image") \/ Issued("commit")) => opts.do_flash
    /\ (opts.do_flash /\ Issued("run")) => Issued("load_image") /\ Issued("commit")
    /\ \A i \in 1..Len(ops) :
         ops[i].name \notin {"write_word_32 0xdeadc0de", "set_hw_breakpoint",
                             "wait_for_core_halted", "clear_hw_breakpoint"}
    /\ Cardinality({i \in 1..Len(ops) : ops[i].name = "run"}) <= 1
    /\ \A i \in 1..Len(ops) :
         ops[i].name = "run" =>
           \E p \in 1..i, sp \in 1..i, v \in 1..i :
             /\ p < sp /\ sp < v /\ v < i
             /\ ops[p].name = "write_core_reg PC" /\ ops[p].res = "Ok"
             /\ ops[p].val = TheVectorTable.data[2]
             /\ ops[sp].name = "write_core_reg SP" /\ ops[sp].res = "Ok"
             /\ ops[sp].val = TheVectorTable.data[1]
             /\ ops[v].name = "write_word_32 0xE000ED08" /\ ops[v].res = "Ok"
             /\ ops[v].val = TheVectorTable.start

\* A run from a Generic region wrote the image through the loader and
\* released the core.
C32_Witness ==
  /\ chip.region = "Generic"
  /\ opts.do_flash
  /\ Issued("commit")
  /\ Issued("write_core_reg PC")
  /\ Issued("run")

\* The indices of the run() operations issued so far.
Runs == {i \in 1..Len(ops) : ops[i].name = "run"}

\* The run() at index i is the one that releases the firmware: the only one
\* of a RAM-mode boot, the second one of a flash-mode boot.
IsFinalRun(i) ==
  /\ i \in Runs
  /\ InRamRegion \/ \E j \in Runs : j < i

\* The address of the hard-fault handler and of main with bit 0 cleared.
HardFaultAddr == TheVectorTable.data[4] - (TheVectorTable.data[4] % 2)
MainAddr == AddrOf("main") - (AddrOf("main") % 2)

\* C33: before the run() that releases the firmware, the BLOCK_IF_FULL flag
\* was written and a breakpoint was placed at the hard-fault handler's address
\* with bit 0 cleared, by a write of the BKPT instruction in RAM mode and by a
\* hardware breakpoint in flash mode, both successfully; every hardware
\* breakpoint is set at an address with bit 0 cleared; and a hardware
\* breakpoint set at main (at its address with bit 0 cleared) was cleared
\* again, successfully, before that run().
C33_BreakpointsBeforeRelease ==
  /\ \A i \in 1..Len(ops) :
       ops[i].name \in {"set_hw_breakpoint", "clear_hw_breakpoint", "write_8"} =>
         /\ ops[i].addr % 2 = 0
         /\ ops[i].addr \in {HardFaultAddr, MainAddr}
  /\ \A i \in 1..Len(ops) :
       IsFinalRun(i) =>
         /\ \E f \in 1..i, h \in 1..i :
              /\ f < i /\ h < i
              /\ IsBlockIfFull(f) /\ ops[f].res = "Ok"
              /\ ops[h].name = (IF InRamRegion THEN "write_8" ELSE "set_hw_breakpoint")
              /\ ops[h].addr = HardFaultAddr
              /\ ops[h].res = "Ok"
         /\ \A b \in 1..i :
              (ops[b].name = "set_hw_breakpoint" /\ ops[b].addr = MainAddr) =>
                \E c \in 1..i :
                  /\ b < c /\ c < i
                  /\ ops[c].name = "clear_hw_breakpoint"
                  /\ ops[c].addr = MainAddr
                  /\ ops[c].res = "Ok"

\* A flash-mode boot ran to main and then released the firmware.
C33_Witness ==
  /\ chip.region = "Nvm"
  /\ Cardinality(Runs) = 2
  /\ \E i \in Runs : IsFinalRun(i)

\* ------------------------------------------------------ claims: Runner::poll
\* Everything the reads returned so far, as one stream.
RECURSIVE Flatten(_)
Flatten(chunks) == IF chunks = << >> THEN << >> ELSE Head(chunks) \o Flatten(Tail(chunks))
Stream == Flatten(reads)

\* The position of the first frame of the stream that does not decode (0: none).
FirstBad ==
  IF \E i \in 1..Len(Stream) : Stream[i].kind = "bad"
    THEN CHOOSE i \in 1..Len(Stream) :
           /\ Stream[i].kind = "bad"
           /\ \A j \in 1..(i - 1) : Stream[j].kind # "bad"
    ELSE 0

\* The frames poll has to report: the ones that are complete (a cut frame
\* counts where its rest arrives), up to the first bad one when the encoding
\* cannot recover.
Reportable ==
  LET seen == IF Unwrap(can_recover) \/ FirstBad = 0 THEN Stream
              ELSE SubSeq(Stream, 1, FirstBad - 1)
  IN SelectSeq(seen, LAMBDA t : t.kind \in {"frame", "rest", "bad"})

\* C34: the records poll has logged are, in stream order, one "device" record
\* with the frame's message per complete frame received and one warning
\* "failed to decode defmt data" per malformed frame; when the encoding cannot
\* recover nothing is logged from the first malformed frame on and the run
\* has ended with the error "failed to decode defmt data", and otherwise a
\* malformed frame never ends the run; a poll that has returned Ok left in
\* the decoder only the cut frame at the end of the stream, if any; so a read
\* of zero bytes changes neither the log nor the decoder.
C34_FrameDraining ==
  can_recover # None =>
    /\ Len(poll_log) = Len(Reportable)
    /\ \A i \in 1..Len(poll_log) :
         IF Reportable[i].kind = "bad"
           THEN poll_log[i] = WarnRun("failed to decode defmt data")
           ELSE /\ poll_log[i].target = << "device" >>
                /\ poll_log[i].msg = Reportable[i].msg
    /\ (poll_result = Some("failed to decode defmt data"))
         <=> (~Unwrap(can_recover) /\ FirstBad # 0)
    /\ poll_result = None =>
         dec_buf = (IF Stream # << >> /\ Stream[Len(Stream)].kind = "half"
                      THEN << Stream[Len(Stream)] >> ELSE << >>)

\* With an encoding that recovers, a read returned a malformed frame followed
\* by a good one, and the next read returned nothing.
C34_Witness ==
  /\ can_recover = Some(TRUE)
  /\ reads = << << BadFrame, Token("frame", Some("info"), "hello") >>, << >> >>
  /\ Len(poll_log) = 2
  /\ poll_log[2].msg = "hello"
  /\ poll_result = None

\* --------------------------------------------- claims: connect's power cycle
\* The values the power_reset of this connect wrote to disable, in order.
WrittenValues == [i \in 1..Len(cycle_writes) |-> cycle_writes[i].val]

\* C35: the power_reset of a connect writes to the port's disable file "1"
\* and then, at least the delay of one second later, "0", and nothing else;
\* when it returned Ok both were written, so the last value is "0"; it is
\* called only when a power reset is asked for, at most once, and has returned
\* before the settle loop opens a probe for the first time, which happens
\* after its last write.
C35_PowerCycleOrder ==
  /\ WrittenValues \in { << >>, << "1" >>, << "1", "0" >> }
  /\ Len(cycle_writes) = 2 => cycle_writes[2].at >= cycle_writes[1].at + 1000
  /\ power_res = Some("Ok") => WrittenValues = << "1", "0" >>
  /\ (power_res # None \/ cycle_writes # << >>) => probe_opts.power_reset
  /\ (probe_opts.power_reset /\ (attempts # << >> \/ end # None)) => power_res # None
  /\ \A i \in 1..Len(attempts), j \in 1..Len(cycle_writes) :
       cycle_writes[j].at < attempts[i].at

\* A connect power-cycled its probe and then found it at the second attempt.
C35_Witness ==
  /\ power_res = Some("Ok")
  /\ WrittenValues = << "1", "0" >>
  /\ Len(attempts) = 2
  /\ attempts[2].res = "Ok"

\* ------------------------------------- claims: the panic hook and CatchUnwind
\* C36: a panic on a thread whose CATCHING_UNWIND flag is false is logged by
\* the hook and aborts the process (nothing is logged after it), and the
\* process is aborted by the hook in no other case.
C36_UncaughtPanicAborts ==
  /\ \A i \in 1..Len(panic_log) :
       /\ panic_log[i].rec = PanicRecord
       /\ ~panic_log[i].catching => aborted /\ i = Len(panic_log)
  /\ aborted => panic_log # << >> /\ ~panic_log[Len(panic_log)].catching

\* A panic inside a CatchUnwind on one thread was caught, and a panic on
\* another thread, where the flag was false, aborted the process.
C36_Witness ==
  /\ Len(panic_log) = 2
  /\ panic_log[1].catching /\ panic_log[1].depth > 0
  /\ ~panic_log[2].catching /\ panic_log[2].depth = 0
  /\ panic_log[1].thread # panic_log[2].thread
  /\ aborted

\* C37: a thread's CATCHING_UNWIND flag is true only while a CatchUnwind::poll
\* is in progress on it, whichever way the polls before ended, so that every
\* panic outside a CatchUnwind::poll aborts the process.
C37_FlagRestored ==
  /\ \A w \in Threads : unwind_stack[w] = << >> => ~CATCHING_UNWIND[w]
  /\ \A i \in 1..Len(panic_log) : panic_log[i].depth = 0 => aborted

\* ------------------------------------------------- claims: capture isolation
\* What a capture of request r's engine invocation must hold: one entry per
\* record logged on its worker that passes the capture filter, in order.
OwnEntries(r) ==
  [i \in 1..Len(PassingRecords(r)) |-> FromRecord(PassingRecords(r)[i])]

\* C38: the capture buffer is per thread.  A worker thread's cell is unset
\* whenever no with_capture is in progress on it, and during one it holds
\* exactly the passing records of the request it runs, starting from none: a
\* record of a request running at the same time on another worker is never
\* in it, nor in the entries with_capture returned, nor in the response.  A
\* record logged on a thread with no buffer set, such as check_auth's on a
\* runtime thread, is captured nowhere and does not set a buffer.
C38_CaptureIsolation ==
  /\ \A w \in Threads :
       IF thread_job[w] = 0
         THEN CAPTURE[w] = None
         ELSE CAPTURE[w] = Some(OwnEntries(thread_job[w]))
  /\ \A r \in Reqs :
       /\ (result[r] # None /\ ~Unwrap(result[r]).join_error) =>
            Unwrap(result[r]).entries = OwnEntries(r)
       /\ (Answered(r) /\ job[r] = "finished") =>
            Unwrap(resp[r]).body = FormatEntries(OwnEntries(r))
  /\ runtime_capture = None

\* Two requests run at the same time on two workers, each has logged a
\* passing record of its own, a handler has logged a passing record on a
\* runtime thread, and the two buffers differ.
C38_Witness ==
  /\ thread_job[1] # 0 /\ thread_job[2] # 0 /\ thread_job[1] # thread_job[2]
  /\ CAPTURE[1] # None /\ CAPTURE[2] # None
  /\ Len(Unwrap(CAPTURE[1])) = 1 /\ Len(Unwrap(CAPTURE[2])) = 1
  /\ CAPTURE[1] # CAPTURE[2]
  /\ \E i \in 1..Len(runtime_logged) : CaptureFilterMatches(runtime_logged[i])

\* ------------------------------------------------- claims: the context mutex
\* A handler at an await.
Suspended(h) == h_pc[h].at \in Awaits

\* A handler that needs the context mutex for its next step.
WantsContext(h) == h_pc[h].at \in Scopes /\ ~h_pc[h].held

\* C39: the context mutex is never held across a suspension point.  A handler
\* waiting for the target lock or for the engine does not hold it, whoever
\* holds it is inside a scope that ends without waiting for anything, and so
\* while one request is blocked on a busy target every other request that
\* needs the context finds it free or held by a handler that is running.
C39_ContextNotHeldAcrossAwait ==
  /\ \A h \in Handlers : Suspended(h) => context_owner # h /\ ~h_pc[h].held
  /\ context_owner # 0 =>
       h_pc[context_owner].at \in Scopes /\ h_pc[context_owner].held
  /\ \A h \in Handlers :
       h_pc[h].held <=> context_owner = h

\* One run request waits at the engine with the target's guard, a second one
\* is blocked on the busy target, and a third request holds the context mutex.
C39_Witness ==
  \E h, g, k \in Handlers :
    /\ h_pc[h].at = "join_wait" /\ target_guard = h
    /\ h_pc[g].at = "lock_wait"
    /\ context_owner = k /\ h_pc[k].at \in {"auth", "targets"}

\* --------------------------------------------- claims: the client's cache
SkippedHashes == { files[skipped_jobs[k]].hash : k \in 1..Len(skipped_jobs) }
SucceededHashes == { files[i].hash : i \in { j \in Jobs : job_result[j] = "ok" } }
JobFailed == \E i \in Jobs : job_result[i] = "failed"
\* Files whose every job failed.
OnlyFailed ==
  { i \in Jobs : /\ job_result[i] = "failed"
                 /\ files[i].hash \notin SkippedHashes \cup SucceededHashes }

====
